---- MODULE Spec2Model ----
(***************************************************************************)
(* A model of the QQ Music catalog client (qq_music_api/client.py), its     *)
(* domain model (models.py) and its static tables (config.py).             *)
(*                                                                         *)
(* One invocation of a client operation runs at a time.  A network         *)
(* operation is two steps, split at its only suspension point (the await   *)
(* of the transport call): the first builds the request and sends it, the  *)
(* second runs the rest of the handler on the upstream reply.              *)
(*                                                                         *)
(* A decoded JSON object is a record; a field the object does not carry is *)
(* a key outside the record's DOMAIN, read with Get as dict.get reads it.  *)
(***************************************************************************)
EXTENDS Integers, Sequences, FiniteSets, TLC

VARIABLES
    cookie,     \* self.cookie, fixed at construction
    ctor,       \* what __init__ was given: its cookie argument and the environment
    headers,    \* self._client.headers, the headers the transport sends by default
    transport,  \* self._client: its state, and how often it was acquired and released
    calls,      \* the lifecycle methods called on the instance so far, in order
    tasks,      \* the invocations of the presentation shims that run concurrently
    pc,         \* "idle" | "awaiting" | "done": position of the invocation
    call,       \* the operation invoked and its arguments
    sent,       \* the upstream requests this invocation has issued, in order
    reply,      \* the upstream reply the invocation resumed on
    outcome,    \* what the invocation gave its caller: a value or an error
    qualities   \* available_qualities of each Track of the outcome, once read

\* what no operation of the client writes: the instance's own state
untouched == <<cookie, ctor, headers, transport, calls, tasks>>

vars == <<untouched, pc, call, sent, reply, outcome, qualities>>

---------------------------------------------------------------------------
(* Bounds of the model.                                                    *)

MaxPage == 2
MaxPageSize == 2
MaxTotal == 3
MaxList == 2
MaxMids == 2
MaxRecords == 2

---------------------------------------------------------------------------
(* Python values.                                                          *)

\* None, and the value of a variable that holds nothing yet.
None == [none |-> TRUE]

\* dict.get(k, default)
Get(d, k, default) == IF k \in DOMAIN d THEN d[k] ELSE default

\* the sequences over S of length at most n
SeqUpTo(S, n) == UNION {[1..m -> S] : m \in 0..n}

Min(a, b) == IF a <= b THEN a ELSE b

\* a soft-failure test that takes only a positive code for a failure
soft_failure_positive_only(result) == "code" \in DOMAIN result /\ result.code > 0

\* result.get("code") != 0: a missing field reads as None, which is not 0
soft_failure(result) == "code" \notin DOMAIN result \/ result.code # 0

Returned(v) == [kind |-> "returned", value |-> v]
Raised(e) == [kind |-> "raised", error |-> e]

---------------------------------------------------------------------------
(* config.py                                                               *)

BASE_URLS == [c |-> "https://c.y.qq.com", u |-> "https://u.y.qq.com",
              shc |-> "https://shc.y.qq.com"]

DEFAULT_HEADERS ==
    ("User-Agent" :> "Mozilla/5.0 (Windows NT 10.0; Win64; x64) AppleWebKit/537.36 (KHTML, like Gecko) Chrome/120.0.0.0 Safari/537.36")
    @@ ("Referer" :> "https://y.qq.com/")
    @@ ("Origin" :> "https://y.qq.com")

SEARCH_TYPE == [song |-> 0, album |-> 2, playlist |-> 3, mv |-> 4,
                lyric |-> 7, user |-> 8]

QUALITY_TYPE ==
    ("m4a" :> [prefix |-> "C400", ext |-> "m4a"])
    @@ ("128" :> [prefix |-> "M500", ext |-> "mp3"])
    @@ ("320" :> [prefix |-> "M800", ext |-> "mp3"])
    @@ ("flac" :> [prefix |-> "F000", ext |-> "flac"])
    @@ ("ape" :> [prefix |-> "A000", ext |-> "ape"])
    @@ ("hires" :> [prefix |-> "RS01", ext |-> "flac"])
    @@ ("atmos" :> [prefix |-> "Q001", ext |-> "flac"])

\* ALBUM_COVER_URL.format(size=size, albummid=album_mid)
ALBUM_COVER_URL(size, albummid) ==
    "https://y.qq.com/music/photo_new/T002R" \o ToString(size) \o "x"
        \o ToString(size) \o "M000" \o albummid \o ".jpg"

---------------------------------------------------------------------------
(* models.py                                                               *)

\* Singer(singerid=s.get("id", 0), singermid=s.get("mid", ""),
\*        singername=s.get("name", ""))
Singer(s) == [id |-> Get(s, "id", 0), mid |-> Get(s, "mid", ""),
              name |-> Get(s, "name", "")]

\* the list comprehension [Singer(...) for s in item.get("singer", [])]
Singers(item) ==
    LET l == Get(item, "singer", <<>>) IN [i \in 1..Len(l) |-> Singer(l[i])]

\* SongFile(size_96aac=file_info.get("size_96aac", 0), ...): the upstream keys
\* are the aliases, the fields of the model the names
SongFile(file_info) ==
    [size_m4a   |-> Get(file_info, "size_96aac", 0),
     size_128   |-> Get(file_info, "size_128mp3", 0),
     size_320   |-> Get(file_info, "size_320mp3", 0),
     size_flac  |-> Get(file_info, "size_flac", 0),
     size_ape   |-> Get(file_info, "size_ape", 0),
     size_hires |-> Get(file_info, "size_hires", 0),
     size_atmos |-> Get(file_info, "size_dolby", 0)]

\* the seven tests with >= 0 in place of > 0
SongFile_available_qualities_nonneg(self) ==
    LET q1 == IF self.size_m4a >= 0 THEN <<"m4a">> ELSE <<>>
        q2 == IF self.size_128 >= 0 THEN Append(q1, "128") ELSE q1
        q3 == IF self.size_320 >= 0 THEN Append(q2, "320") ELSE q2
        q4 == IF self.size_flac >= 0 THEN Append(q3, "flac") ELSE q3
        q5 == IF self.size_ape >= 0 THEN Append(q4, "ape") ELSE q4
        q6 == IF self.size_hires >= 0 THEN Append(q5, "hires") ELSE q5
        q7 == IF self.size_atmos >= 0 THEN Append(q6, "atmos") ELSE q6
    IN  q7

\* SongFile.available_qualities: seven tests in sequence, each appending
SongFile_available_qualities(self) ==
    LET q1 == IF self.size_m4a > 0 THEN <<"m4a">> ELSE <<>>
        q2 == IF self.size_128 > 0 THEN Append(q1, "128") ELSE q1
        q3 == IF self.size_320 > 0 THEN Append(q2, "320") ELSE q2
        q4 == IF self.size_flac > 0 THEN Append(q3, "flac") ELSE q3
        q5 == IF self.size_ape > 0 THEN Append(q4, "ape") ELSE q4
        q6 == IF self.size_hires > 0 THEN Append(q5, "hires") ELSE q5
        q7 == IF self.size_atmos > 0 THEN Append(q6, "atmos") ELSE q6
    IN  q7

\* Song.available_qualities: a model instance is truthy, None is not
Song_available_qualities(self) ==
    IF self.file # None THEN SongFile_available_qualities(self.file) ELSE <<>>

\* The defaults of SearchResult's fields
DefaultTotal == 0
DefaultPage == 1
DefaultPageSize == 20

\* SearchResult(keyword=keyword): every other field at its default
SearchResult_default(keyword) ==
    [keyword |-> keyword, total |-> DefaultTotal, page |-> DefaultPage,
     page_size |-> DefaultPageSize, songs |-> <<>>]

\* Lyric(): both fields default to ""
Lyric_default == [lyric |-> "", trans |-> ""]

\* SongUrl(mid=mid, quality=quality): url defaults to "", size to 0
SongUrl_default(mid, quality) ==
    [mid |-> mid, url |-> "", quality |-> quality, size |-> 0]

---------------------------------------------------------------------------
(* The transport (httpx.AsyncClient) and what upstream may answer.         *)
(*                                                                         *)
(* A reply is either a transport error raised at the await, or a response  *)
(* with a status and a text.  A text is prefix \o body \o suffix, where    *)
(* the body is the text of a JSON object (valid, with its decoded value)   *)
(* or some other text (raw).                                               *)

\* the headers __init__ gives the transport: DEFAULT_HEADERS, and Cookie when
\* the credential is non-empty
ClientHeaders ==
    IF cookie # "" THEN ("Cookie" :> cookie) @@ DEFAULT_HEADERS
    ELSE DEFAULT_HEADERS

\* httpx.AsyncClient(...) as __init__ leaves it: one transport, open
NewTransport == [state |-> "open", acquired |-> 1, released_by |-> <<>>]

\* the cookie argument of __init__: None, or a str
NoArg == None
Arg(c) == [str |-> c]

\* os.environ: QQ_MUSIC_COOKIE unset, or set to a str
EnvUnset == [unset |-> TRUE]
EnvSet(c) == [value |-> c]

\* os.environ.get("QQ_MUSIC_COOKIE", default)
environ_get(env, default) == IF env = EnvUnset THEN default ELSE env.value

\* self._client.get(url, params=params, headers=request_headers): per-request
\* headers override the client's for this request
client_get(url, params, request_headers) ==
    [method |-> "GET", url |-> url, params |-> params,
     headers |-> request_headers @@ headers]

EmptyDict == <<>>

JsonBody(v) == [valid |-> TRUE, value |-> v]
RawBody(t) == [valid |-> FALSE, raw |-> t]
Text(prefix, body, suffix) == [prefix |-> prefix, body |-> body, suffix |-> suffix]
Plain(v) == Text("", JsonBody(v), "")

\* response.raise_for_status(): anything but 2xx raises
is_success(status) == status \in 200..299

\* json.loads(text)
json_loads(text) ==
    IF text.prefix = "" /\ text.suffix = "" /\ text.body.valid
    THEN Returned(text.body.value)
    ELSE Raised("JSONDecodeError")

startswith(t, p) == Len(t) >= Len(p) /\ SubSeq(t, 1, Len(p)) = p
endswith(t, p) == Len(t) >= Len(p) /\ SubSeq(t, Len(t) - Len(p) + 1, Len(t)) = p

\* text.startswith("callback(") or text.startswith("MusicJsonCallback(")
has_jsonp_prefix(text) ==
    startswith(text.prefix, "callback(") \/ startswith(text.prefix, "MusicJsonCallback(")

\* re.search(r"\(({.*})\)", text, re.DOTALL) finds a match: some "({" with a
\* later "})"
jsonp_match(text) ==
    /\ endswith(text.prefix, "(")
    /\ startswith(text.suffix, ")")
    /\ \/ text.body.valid
       \/ /\ ~text.body.valid
          /\ startswith(text.body.raw, "{")
          /\ endswith(text.body.raw, "}")

\* a JSONP step that takes the parenthesized object whatever the text begins with
jsonp_unwrap_any_callback(text) ==
    IF jsonp_match(text) THEN Text("", text.body, "") ELSE text

\* the JSONP step of _request: text = match.group(1) when the prefix is there
\* and the pattern matches
jsonp_unwrap(text) ==
    IF has_jsonp_prefix(text) /\ jsonp_match(text)
    THEN Text("", text.body, "")
    ELSE text

\* the part of _request after the await: raise_for_status, the JSONP step,
\* json.loads
_request(r) ==
    IF r.kind = "error" THEN Raised(r.error)
    ELSE IF ~is_success(r.status) THEN Raised("HTTPStatusError")
    ELSE json_loads(jsonp_unwrap(r.text))

\* What upstream may answer, given the JSON objects Bodies it may send plain
\* and the objects Few it may also send wrapped or with a failure status.
Wrapped(b) ==
    {Text("callback(", JsonBody(b), ")"),
     Text("MusicJsonCallback(", JsonBody(b), ")"),
     Text("callback(", JsonBody(b), ""),
     Text("jsonp1(", JsonBody(b), ")")}

Malformed ==
    {Text("", RawBody("<html>"), ""),
     Text("callback(", RawBody("{bad}"), ")"),
     Text("MusicJsonCallback(", RawBody("{bad"), ")")}

FailureStatus == {404, 500}
TransportErrors == {"ConnectError", "ReadTimeout"}

Replies(Bodies, Few) ==
    {[kind |-> "response", status |-> 200, text |-> t] :
        t \in {Plain(b) : b \in Bodies} \cup UNION {Wrapped(b) : b \in Few}
              \cup Malformed}
    \cup {[kind |-> "response", status |-> st, text |-> Plain(b)] :
            st \in FailureStatus, b \in Few}
    \cup {[kind |-> "error", error |-> e] : e \in TransportErrors}

---------------------------------------------------------------------------
(* search                                                                  *)

Keywords == {"test", "jay chou"}
SearchTypes == {"song", "album", "playlist", "mv", "lyric", "user", "video"}
Pages == 1..MaxPage
PageSizes == (1..MaxPageSize) \cup {DefaultPageSize}

ItemA ==
    [id |-> 101, mid |-> "A", name |-> "Song A",
     album |-> [id |-> 11, mid |-> "AL1", name |-> "Album 1"],
     singer |-> <<[id |-> 7, mid |-> "S1", name |-> "Singer 1"],
                  [id |-> 8, mid |-> "S2"]>>,
     interval |-> 200,
     pay |-> [pay_play |-> 1],
     file |-> [size_128mp3 |-> 5, size_flac |-> 9]]
ItemB == [mid |-> "B"]
SearchItems == {ItemA, ItemB}

SongDatas ==
    {EmptyDict}
    \cup {[list |-> l] : l \in SeqUpTo(SearchItems, MaxList)}
    \cup {[totalnum |-> n] : n \in 0..MaxTotal}
    \cup {[list |-> l, totalnum |-> n] :
            l \in SeqUpTo(SearchItems, MaxList), n \in 0..MaxTotal}

SearchSoftBodies ==
    {EmptyDict, [code |-> 1],
     [code |-> -1, data |-> [song |-> [list |-> <<ItemA>>, totalnum |-> 1]]]}

SearchBodies ==
    {[code |-> 0], [code |-> 0, data |-> EmptyDict]}
    \cup {[code |-> 0, data |-> [song |-> sd]] : sd \in SongDatas}
    \cup SearchSoftBodies

SearchReplies ==
    Replies(SearchBodies,
            SearchSoftBodies \cup
                {[code |-> 0, data |-> [song |-> [list |-> <<ItemB, ItemA>>,
                                                  totalnum |-> 2]]]})

\* SEARCH_TYPE.get(search_type, 0)
search_type_code(search_type) == Get(SEARCH_TYPE, search_type, 0)

\* the request search builds and sends
search_request(keyword, search_type, page, page_size) ==
    client_get(BASE_URLS.c \o "/soso/fcgi-bin/client_search_cp",
               [w |-> keyword, p |-> page, n |-> page_size,
                t |-> search_type_code(search_type),
                format |-> "json", inCharset |-> "utf8", outCharset |-> "utf-8",
                new_json |-> 1, aggr |-> 1, cr |-> 1, lossless |-> 0],
               EmptyDict)

\* a search mapping that attaches a SongFile when the item carries a file
search_song_with_file(item) ==
    [id |-> Get(item, "id", 0),
     mid |-> Get(item, "mid", ""),
     name |-> Get(item, "name", ""),
     album_id |-> Get(Get(item, "album", EmptyDict), "id", 0),
     album_mid |-> Get(Get(item, "album", EmptyDict), "mid", ""),
     album_name |-> Get(Get(item, "album", EmptyDict), "name", ""),
     singers |-> Singers(item),
     duration |-> Get(item, "interval", 0),
     pay_play |-> Get(Get(item, "pay", EmptyDict), "pay_play", 0),
     file |-> SongFile(Get(item, "file", EmptyDict))]

\* Song(...) as search builds it from one item of data.song.list: no file
search_song(item) ==
    [id |-> Get(item, "id", 0),
     mid |-> Get(item, "mid", ""),
     name |-> Get(item, "name", ""),
     album_id |-> Get(Get(item, "album", EmptyDict), "id", 0),
     album_mid |-> Get(Get(item, "album", EmptyDict), "mid", ""),
     album_name |-> Get(Get(item, "album", EmptyDict), "name", ""),
     singers |-> Singers(item),
     duration |-> Get(item, "interval", 0),
     pay_play |-> Get(Get(item, "pay", EmptyDict), "pay_play", 0),
     file |-> None]

\* an accumulation that prepends instead of appending
search_songs_reversed(song_data) ==
    LET l == Get(song_data, "list", <<>>)
    IN  [i \in 1..Len(l) |-> search_song(l[Len(l) + 1 - i])]

\* an accumulation that stops one item short
search_songs_drop_last(song_data) ==
    LET l == Get(song_data, "list", <<>>)
    IN  [i \in 1..(IF Len(l) > 0 THEN Len(l) - 1 ELSE 0) |-> search_song(l[i])]

\* the songs list search accumulates over song_data.get("list", [])
search_songs(song_data) ==
    LET l == Get(song_data, "list", <<>>) IN [i \in 1..Len(l) |-> search_song(l[i])]

\* the value search returns on a soft failure: SearchResult(keyword=keyword)
search_soft_failure(keyword, page, page_size) == SearchResult_default(keyword)

\* search after the await, given what _request gave
search_result(keyword, page, page_size, req) ==
    IF req.kind = "raised" THEN req
    ELSE LET result == req.value IN
         IF soft_failure(result)
         THEN Returned(search_soft_failure(keyword, page, page_size))
         ELSE LET song_data == Get(Get(result, "data", EmptyDict), "song", EmptyDict)
              IN  Returned([keyword |-> keyword,
                            total |-> Get(song_data, "totalnum", 0),
                            page |-> page,
                            page_size |-> page_size,
                            songs |-> search_songs(song_data)])

\* search, up to the await of self._request
search ==
    /\ pc = "idle"
    /\ \E keyword \in Keywords, search_type \in SearchTypes,
          page \in Pages, page_size \in PageSizes :
        /\ call' = [op |-> "search", keyword |-> keyword,
                    search_type |-> search_type,
                    page |-> page, page_size |-> page_size]
        /\ sent' = Append(sent, search_request(keyword, search_type, page, page_size))
    /\ pc' = "awaiting"
    /\ UNCHANGED <<untouched, reply, outcome, qualities>>

\* search, from the await on
search_resume ==
    /\ pc = "awaiting"
    /\ call.op = "search"
    /\ \E r \in SearchReplies :
        /\ reply' = r
        /\ outcome' = search_result(call.keyword, call.page, call.page_size,
                                    _request(r))
    /\ pc' = "done"
    /\ UNCHANGED <<untouched, call, sent, qualities>>

---------------------------------------------------------------------------
(* get_song_detail                                                         *)

Mids == {"A", "B"}

\* json.dumps(data): the JSON text of a value, kept as the value it encodes
json_dumps(v) == [json_text_of |-> v]

FileKeys == {"size_96aac", "size_128mp3", "size_320mp3", "size_flac",
             "size_ape", "size_hires", "size_dolby"}
Sizes == {-1, 0, 5}

\* the file objects upstream may send: every key with every size, and some
\* with keys missing
FileInfos ==
    [FileKeys -> Sizes] \cup {EmptyDict, [size_flac |-> 9], [size_96aac |-> 3, size_dolby |-> 4]}

TrackWith(file_info) ==
    [id |-> 101, mid |-> "A", name |-> "Song A",
     album |-> [id |-> 11, mid |-> "AL1", name |-> "Album 1"],
     singer |-> <<[id |-> 7, mid |-> "S1", name |-> "Singer 1"]>>,
     interval |-> 200,
     pay |-> [pay_play |-> 1],
     file |-> file_info]

Tracks == {TrackWith(f) : f \in FileInfos} \cup {[mid |-> "B"]}

SongDetailSoftBodies ==
    {EmptyDict, [code |-> 1],
     [code |-> 1, songinfo |-> [data |-> [track_info |-> TrackWith([size_flac |-> 9])]]]}

SongDetailBodies ==
    {[code |-> 0], [code |-> 0, songinfo |-> EmptyDict],
     [code |-> 0, songinfo |-> [data |-> EmptyDict]],
     [code |-> 0, songinfo |-> [data |-> [track_info |-> EmptyDict]]]}
    \cup {[code |-> 0, songinfo |-> [data |-> [track_info |-> t]]] : t \in Tracks}
    \cup SongDetailSoftBodies

SongDetailReplies ==
    Replies(SongDetailBodies,
            SongDetailSoftBodies \cup
                {[code |-> 0, songinfo |-> [data |-> [track_info |-> TrackWith([size_flac |-> 9])]]]})

\* the request get_song_detail builds and sends
get_song_detail_request(song_mid) ==
    client_get(BASE_URLS.u \o "/cgi-bin/musicu.fcg",
               [format |-> "json",
                data |-> json_dumps(
                    [songinfo |-> [method |-> "get_song_detail_yqq",
                                   module |-> "music.pf_song_detail_svr",
                                   param |-> [song_mid |-> song_mid]]])],
               EmptyDict)

\* the SongFile get_song_detail attaches to its Song
get_song_detail_file(track) == SongFile(Get(track, "file", EmptyDict))

\* get_song_detail after the await, given what _request gave
get_song_detail_result(req) ==
    IF req.kind = "raised" THEN req
    ELSE LET result == req.value IN
         IF soft_failure(result) THEN Returned(None)
         ELSE LET track == Get(Get(Get(result, "songinfo", EmptyDict),
                                   "data", EmptyDict), "track_info", EmptyDict)
              IN  IF track = EmptyDict THEN Returned(None)
                  ELSE Returned(
                    [id |-> Get(track, "id", 0),
                     mid |-> Get(track, "mid", ""),
                     name |-> Get(track, "name", ""),
                     album_id |-> Get(Get(track, "album", EmptyDict), "id", 0),
                     album_mid |-> Get(Get(track, "album", EmptyDict), "mid", ""),
                     album_name |-> Get(Get(track, "album", EmptyDict), "name", ""),
                     singers |-> Singers(track),
                     duration |-> Get(track, "interval", 0),
                     pay_play |-> Get(Get(track, "pay", EmptyDict), "pay_play", 0),
                     file |-> get_song_detail_file(track)])

\* get_song_detail, up to the await of self._request
get_song_detail ==
    /\ pc = "idle"
    /\ \E song_mid \in Mids :
        /\ call' = [op |-> "get_song_detail", song_mid |-> song_mid]
        /\ sent' = Append(sent, get_song_detail_request(song_mid))
    /\ pc' = "awaiting"
    /\ UNCHANGED <<untouched, reply, outcome, qualities>>

\* get_song_detail, from the await on
get_song_detail_resume ==
    /\ pc = "awaiting"
    /\ call.op = "get_song_detail"
    /\ \E r \in SongDetailReplies :
        /\ reply' = r
        /\ outcome' = get_song_detail_result(_request(r))
    /\ pc' = "done"
    /\ UNCHANGED <<untouched, call, sent, qualities>>

---------------------------------------------------------------------------
(* get_lyric                                                               *)

B64Alphabet == "ABCDEFGHIJKLMNOPQRSTUVWXYZabcdefghijklmnopqrstuvwxyz0123456789+/"

\* the 6-bit value of a base64 character, 64 for a character outside the alphabet
b64_value(ch) ==
    IF \E i \in 1..Len(B64Alphabet) : SubSeq(B64Alphabet, i, i) = ch
    THEN (CHOOSE i \in 1..Len(B64Alphabet) : SubSeq(B64Alphabet, i, i) = ch) - 1
    ELSE 64

\* binascii.a2b_base64 in its lenient mode, as base64.b64decode calls it: one
\* character at a time, with the position in the quad, the bits left over and
\* the count of pads seen.  Gives the bytes, or fails (binascii.Error).
RECURSIVE a2b_base64(_, _, _, _, _, _)
a2b_base64(s, i, quad_pos, leftchar, pads, out) ==
    IF i > Len(s)
    THEN IF quad_pos # 0 THEN [ok |-> FALSE] ELSE [ok |-> TRUE, bytes |-> out]
    ELSE LET ch == SubSeq(s, i, i)
             v == b64_value(ch)
         IN  IF ch = "="
             THEN IF quad_pos >= 2 /\ quad_pos + pads + 1 >= 4
                  THEN [ok |-> TRUE, bytes |-> out]
                  ELSE a2b_base64(s, i + 1, quad_pos, leftchar,
                                  IF quad_pos >= 2 THEN pads + 1 ELSE pads, out)
             ELSE IF v >= 64
             THEN a2b_base64(s, i + 1, quad_pos, leftchar, pads, out)
             ELSE CASE quad_pos = 0 ->
                        a2b_base64(s, i + 1, 1, v, 0, out)
                    [] quad_pos = 1 ->
                        a2b_base64(s, i + 1, 2, v % 16, 0,
                                   Append(out, leftchar * 4 + v \div 16))
                    [] quad_pos = 2 ->
                        a2b_base64(s, i + 1, 3, v % 4, 0,
                                   Append(out, leftchar * 16 + v \div 4))
                    [] OTHER ->
                        a2b_base64(s, i + 1, 0, 0, 0,
                                   Append(out, leftchar * 64 + v))

\* base64.b64decode(s)
b64decode(s) == a2b_base64(s, 1, 0, 0, 0, <<>>)

AsciiLow == " !\"#$%&'()*+,-./0123456789:;<=>?@ABCDEFGHIJKLMNOPQRSTUVWXYZ[\\]^_"
AsciiHigh == "abcdefghijklmnopqrstuvwxyz{|}~"

\* chr(cp); a character a TLA+ string cannot hold is written \u{code point}
chr(cp) ==
    CASE cp \in 32..95 -> SubSeq(AsciiLow, cp - 31, cp - 31)
      [] cp \in 97..126 -> SubSeq(AsciiHigh, cp - 96, cp - 96)
      [] cp = 10 -> "\n"
      [] cp = 9 -> "\t"
      [] OTHER -> "\\u{" \o ToString(cp) \o "}"

is_cont(b) == b \in 128..191

\* bytes.decode("utf-8"): the text, or failure (UnicodeDecodeError)
RECURSIVE utf8_decode(_, _, _)
utf8_decode(bytes, i, out) ==
    IF i > Len(bytes) THEN [ok |-> TRUE, text |-> out]
    ELSE LET b == bytes[i]
             has(n) == i + n <= Len(bytes)
             c(n) == bytes[i + n]
         IN  CASE b < 128 -> utf8_decode(bytes, i + 1, out \o chr(b))
               [] b \in 194..223 ->
                    IF has(1) /\ is_cont(c(1))
                    THEN utf8_decode(bytes, i + 2,
                                     out \o chr((b - 192) * 64 + (c(1) - 128)))
                    ELSE [ok |-> FALSE]
               [] b \in 224..239 ->
                    IF /\ has(2) /\ is_cont(c(1)) /\ is_cont(c(2))
                       /\ (b = 224 => c(1) >= 160)
                       /\ (b = 237 => c(1) <= 159)
                    THEN utf8_decode(bytes, i + 3,
                                     out \o chr((b - 224) * 4096 + (c(1) - 128) * 64
                                                + (c(2) - 128)))
                    ELSE [ok |-> FALSE]
               [] b \in 240..244 ->
                    IF /\ has(3) /\ is_cont(c(1)) /\ is_cont(c(2)) /\ is_cont(c(3))
                       /\ (b = 240 => c(1) >= 144)
                       /\ (b = 244 => c(1) <= 143)
                    THEN utf8_decode(bytes, i + 4,
                                     out \o chr((b - 240) * 262144 + (c(1) - 128) * 4096
                                                + (c(2) - 128) * 64 + (c(3) - 128)))
                    ELSE [ok |-> FALSE]
               [] OTHER -> [ok |-> FALSE]

\* a field that is left empty when a decoding step fails
lyric_field_empty_on_failure(field_b64) ==
    IF field_b64 = "" THEN ""
    ELSE LET raw == b64decode(field_b64) IN
         IF ~raw.ok THEN ""
         ELSE LET txt == utf8_decode(raw.bytes, 1, "") IN
              IF txt.ok THEN txt.text ELSE ""

\* one field of get_lyric: "" stays "", a field that decodes gives its text, a
\* field that fails either step stays as it came
lyric_field(field_b64) ==
    IF field_b64 = "" THEN ""
    ELSE LET raw == b64decode(field_b64) IN
         IF ~raw.ok THEN field_b64
         ELSE LET txt == utf8_decode(raw.bytes, 1, "") IN
              IF txt.ok THEN txt.text ELSE field_b64

LyricFields ==
    {"", "aGVsbG8=", "aGVsbG8", "/w==", "[00:01.00]la la", "5Lit", "aGVs bG8="}

LyricSoftBodies == {EmptyDict, [code |-> -1901], [code |-> 1, lyric |-> "aGVsbG8="]}

LyricBodies ==
    {[code |-> 0]}
    \cup {[code |-> 0, lyric |-> l] : l \in LyricFields}
    \cup {[code |-> 0, trans |-> t] : t \in LyricFields}
    \cup {[code |-> 0, lyric |-> l, trans |-> t] : l \in LyricFields, t \in LyricFields}
    \cup LyricSoftBodies

LyricReplies ==
    Replies(LyricBodies,
            LyricSoftBodies \cup {[code |-> 0, lyric |-> "aGVsbG8=", trans |-> "5Lit"]})

\* the request get_lyric builds and sends, with its own Referer
get_lyric_request(song_mid) ==
    client_get(BASE_URLS.c \o "/lyric/fcgi-bin/fcg_query_lyric_new.fcg",
               [songmid |-> song_mid, g_tk |-> 5381, format |-> "json",
                inCharset |-> "utf8", outCharset |-> "utf-8", nobase64 |-> 0],
               "Referer" :> "https://y.qq.com/portal/player.html")

\* the lyric path without its own raise_for_status
get_lyric_response_unchecked(r) ==
    IF r.kind = "error" THEN Raised(r.error) ELSE json_loads(r.text)

\* the transport part of get_lyric after the await: raise_for_status and
\* response.json(), with no JSONP step
get_lyric_response(r) ==
    IF r.kind = "error" THEN Raised(r.error)
    ELSE IF ~is_success(r.status) THEN Raised("HTTPStatusError")
    ELSE json_loads(r.text)

\* get_lyric after the await
get_lyric_result(req) ==
    IF req.kind = "raised" THEN req
    ELSE LET result == req.value IN
         IF soft_failure(result) THEN Returned(Lyric_default)
         ELSE Returned([lyric |-> lyric_field(Get(result, "lyric", "")),
                        trans |-> lyric_field(Get(result, "trans", ""))])

\* get_lyric, up to the await of self._client.get
get_lyric ==
    /\ pc = "idle"
    /\ \E song_mid \in Mids :
        /\ call' = [op |-> "get_lyric", song_mid |-> song_mid]
        /\ sent' = Append(sent, get_lyric_request(song_mid))
    /\ pc' = "awaiting"
    /\ UNCHANGED <<untouched, reply, outcome, qualities>>

\* get_lyric, from the await on
get_lyric_resume ==
    /\ pc = "awaiting"
    /\ call.op = "get_lyric"
    /\ \E r \in LyricReplies :
        /\ reply' = r
        /\ outcome' = get_lyric_result(get_lyric_response(r))
    /\ pc' = "done"
    /\ UNCHANGED <<untouched, call, sent, qualities>>

---------------------------------------------------------------------------
(* get_song_url                                                            *)

\* song_mid is a str or a list of str
SongMidArgs ==
    {[str |-> m] : m \in Mids} \cup {[list |-> l] : l \in SeqUpTo(Mids, MaxMids)}

Qualities == DOMAIN QUALITY_TYPE \cup {"lossless"}

\* what _generate_guid may give: str(random.randint(1000000000, 9999999999))
Guids == {"1000000000", "9999999999"}

\* if isinstance(song_mid, str): [song_mid] else song_mid
song_mids_of(song_mid) ==
    IF "str" \in DOMAIN song_mid THEN <<song_mid.str>> ELSE song_mid.list

\* a lookup that falls back to the 320 tier
quality_info_default_320(quality) == Get(QUALITY_TYPE, quality, QUALITY_TYPE["320"])

\* QUALITY_TYPE.get(quality, QUALITY_TYPE["128"])
quality_info(quality) == Get(QUALITY_TYPE, quality, QUALITY_TYPE["128"])

is_digit(ch) == ch \in {"0", "1", "2", "3", "4", "5", "6", "7", "8", "9"}

\* the end of the run of digits of c that starts at i
RECURSIVE digits_end(_, _)
digits_end(c, i) ==
    IF i + 1 <= Len(c) /\ is_digit(SubSeq(c, i + 1, i + 1))
    THEN digits_end(c, i + 1) ELSE i

\* re.search(r"uin=(\d+)", c): the places the pattern matches at
uin_matches(c) ==
    {i \in 1..Len(c) : /\ i + 4 <= Len(c)
                       /\ SubSeq(c, i, i + 3) = "uin="
                       /\ is_digit(SubSeq(c, i + 4, i + 4))}

\* a search that keeps the last match instead of the first
extract_uin_last_match(c) ==
    IF c # "" /\ uin_matches(c) # {}
    THEN LET i == CHOOSE j \in uin_matches(c) : \A k \in uin_matches(c) : j >= k
         IN  SubSeq(c, i + 4, digits_end(c, i + 4))
    ELSE "0"

\* the uin get_song_url sends: "0", or group(1) of the first match when the
\* credential is non-empty
extract_uin(c) ==
    IF c # "" /\ uin_matches(c) # {}
    THEN LET i == CHOOSE j \in uin_matches(c) : \A k \in uin_matches(c) : j <= k
         IN  SubSeq(c, i + 4, digits_end(c, i + 4))
    ELSE "0"

\* filenames that hold the mid once
filenames_mid_once(prefix, song_mids, ext) ==
    [i \in 1..Len(song_mids) |-> prefix \o song_mids[i] \o "." \o ext]

\* [f"{prefix}{mid}{mid}.{ext}" for mid in song_mids]
filenames(prefix, song_mids, ext) ==
    [i \in 1..Len(song_mids) |-> prefix \o song_mids[i] \o song_mids[i] \o "." \o ext]

\* one envelope request per mid instead of one for the batch
get_song_url_requests_per_mid(song_mid, quality, guid) ==
    LET song_mids == song_mids_of(song_mid)
        info == quality_info(quality)
    IN  [k \in 1..Len(song_mids) |->
            client_get(BASE_URLS.u \o "/cgi-bin/musicu.fcg",
                [format |-> "json",
                 data |-> json_dumps(
                    [req_0 |-> [module |-> "vkey.GetVkeyServer",
                                method |-> "CgiGetVkey",
                                param |-> [guid |-> guid,
                                           songmid |-> <<song_mids[k]>>,
                                           songtype |-> <<0>>,
                                           uin |-> extract_uin(cookie),
                                           loginflag |-> IF cookie # "" THEN 1 ELSE 0,
                                           platform |-> "20",
                                           filename |-> filenames(info.prefix,
                                                                  <<song_mids[k]>>,
                                                                  info.ext)]]])],
                EmptyDict)]

\* the requests get_song_url builds and sends: one envelope for all the mids
get_song_url_requests(song_mid, quality, guid) ==
    LET song_mids == song_mids_of(song_mid)
        info == quality_info(quality)
    IN  <<client_get(BASE_URLS.u \o "/cgi-bin/musicu.fcg",
            [format |-> "json",
             data |-> json_dumps(
                [req_0 |-> [module |-> "vkey.GetVkeyServer",
                            method |-> "CgiGetVkey",
                            param |-> [guid |-> guid,
                                       songmid |-> song_mids,
                                       songtype |-> [i \in 1..Len(song_mids) |-> 0],
                                       uin |-> extract_uin(cookie),
                                       loginflag |-> IF cookie # "" THEN 1 ELSE 0,
                                       platform |-> "20",
                                       filename |-> filenames(info.prefix, song_mids,
                                                              info.ext)]]])],
            EmptyDict)>>

UrlInfoA == [songmid |-> "A", purl |-> "C400AA.m4a?vkey=1", filesize |-> 7]
UrlInfoB == [songmid |-> "B", purl |-> "", filesize |-> 9]
UrlInfoC == [purl |-> "M500CC.mp3?vkey=2"]
UrlInfos == {UrlInfoA, UrlInfoB, UrlInfoC}

Sips == {<<>>, <<"http://ws.stream.qqmusic.qq.com/", "http://isure.stream.qqmusic.qq.com/">>}

ReqDatas ==
    {EmptyDict}
    \cup {[sip |-> sp] : sp \in Sips}
    \cup {[midurlinfo |-> l] : l \in SeqUpTo(UrlInfos, MaxRecords)}
    \cup {[sip |-> sp, midurlinfo |-> l] :
            sp \in Sips, l \in SeqUpTo(UrlInfos, MaxRecords)}

SongUrlSoftBodies ==
    {EmptyDict, [code |-> 500001],
     [code |-> 1, req_0 |-> [data |-> [midurlinfo |-> <<UrlInfoA>>]]]}

SongUrlBodies ==
    {[code |-> 0], [code |-> 0, req_0 |-> EmptyDict]}
    \cup {[code |-> 0, req_0 |-> [data |-> d]] : d \in ReqDatas}
    \cup SongUrlSoftBodies

SongUrlReplies ==
    Replies(SongUrlBodies,
            SongUrlSoftBodies \cup
                {[code |-> 0, req_0 |-> [data |-> [midurlinfo |-> <<UrlInfoA, UrlInfoB>>]]]})

\* the SongUrl get_song_url appends for one record of midurlinfo
song_url_of(info, sip, quality) ==
    LET purl == Get(info, "purl", "")
        mid == Get(info, "songmid", "")
    IN  IF purl # ""
        THEN [mid |-> mid, url |-> sip \o purl, quality |-> quality,
              size |-> Get(info, "filesize", 0)]
        ELSE SongUrl_default(mid, quality)

\* a loop that emits a locator only for the records that carry a path
song_urls_skip_gaps(midurlinfo, sip, quality) ==
    LET with_path == SelectSeq(midurlinfo, LAMBDA info : Get(info, "purl", "") # "")
    IN  [i \in 1..Len(with_path) |-> song_url_of(with_path[i], sip, quality)]

\* the list get_song_url builds over midurlinfo
song_urls(midurlinfo, sip, quality) ==
    [i \in 1..Len(midurlinfo) |-> song_url_of(midurlinfo[i], sip, quality)]

\* get_song_url after the await, given what _request gave
get_song_url_result(quality, req) ==
    IF req.kind = "raised" THEN req
    ELSE LET result == req.value IN
         IF soft_failure(result) THEN Returned(<<>>)
         ELSE LET req_data == Get(Get(result, "req_0", EmptyDict), "data", EmptyDict)
                  sips == Get(req_data, "sip", <<"">>)
              IN  IF Len(sips) = 0 THEN Raised("IndexError")
                  ELSE Returned(song_urls(Get(req_data, "midurlinfo", <<>>),
                                          sips[1], quality))

\* get_song_url, up to the await of self._request
get_song_url ==
    /\ pc = "idle"
    /\ \E song_mid \in SongMidArgs, quality \in Qualities, guid \in Guids :
        /\ call' = [op |-> "get_song_url", song_mid |-> song_mid,
                    quality |-> quality, guid |-> guid]
        /\ sent' = sent \o get_song_url_requests(song_mid, quality, guid)
    /\ pc' = "awaiting"
    /\ UNCHANGED <<untouched, reply, outcome, qualities>>

\* get_song_url, from the await on
get_song_url_resume ==
    /\ pc = "awaiting"
    /\ call.op = "get_song_url"
    /\ \E r \in SongUrlReplies :
        /\ reply' = r
        /\ outcome' = get_song_url_result(call.quality, _request(r))
    /\ pc' = "done"
    /\ UNCHANGED <<untouched, call, sent, qualities>>

---------------------------------------------------------------------------
(* get_album_detail and get_album_songs: one endpoint, two mappings        *)

AlbumMids == {"AL1", "AL2"}

AlbumItemA ==
    [songid |-> 101, songmid |-> "A", songname |-> "Song A",
     albumid |-> 11, albummid |-> "AL1", albumname |-> "Album 1",
     singer |-> <<[id |-> 7, mid |-> "S1", name |-> "Singer 1"]>>,
     interval |-> 200,
     file |-> [size_128mp3 |-> 5]]
AlbumItemB == [songmid |-> "B", singer |-> <<[id |-> 8, mid |-> "S2"], [name |-> "Singer 3"]>>]
AlbumItemC == [songname |-> "Song C"]
AlbumItems == {AlbumItemA, AlbumItemB, AlbumItemC}

AlbumDatas ==
    {EmptyDict, [mid |-> "AL1"], [mid |-> "AL1", total_song_num |-> MaxTotal]}
    \cup {[id |-> 11, mid |-> "AL1", name |-> "Album 1", aDate |-> "2003-07-31",
           desc |-> "d", list |-> l] : l \in SeqUpTo(AlbumItems, MaxList)}
    \cup {[id |-> 11, mid |-> "AL1", name |-> "Album 1", aDate |-> "2003-07-31",
           desc |-> "d", list |-> l, total_song_num |-> n] :
            l \in SeqUpTo(AlbumItems, MaxList), n \in 0..MaxTotal}

AlbumSoftBodies ==
    {EmptyDict, [code |-> 1],
     [code |-> 1, data |-> [mid |-> "AL1", list |-> <<AlbumItemA>>]]}

AlbumBodies ==
    {[code |-> 0]} \cup {[code |-> 0, data |-> d] : d \in AlbumDatas}
    \cup AlbumSoftBodies

AlbumReplies ==
    Replies(AlbumBodies,
            AlbumSoftBodies \cup
                {[code |-> 0, data |-> [mid |-> "AL1", list |-> <<AlbumItemB, AlbumItemA>>]]})

\* the request get_album_detail and get_album_songs build and send
album_request(album_mid) ==
    client_get(BASE_URLS.c \o "/v8/fcg-bin/fcg_v8_album_info_cp.fcg",
               [albummid |-> album_mid, format |-> "json",
                inCharset |-> "utf8", outCharset |-> "utf-8"],
               EmptyDict)

\* singers taken from the last track of the list
album_singers_of_last(song_list) ==
    IF Len(song_list) > 0 THEN Singers(song_list[Len(song_list)]) ELSE <<>>

\* the singers get_album_detail takes from the first song of the list
album_singers(song_list) ==
    IF Len(song_list) > 0 THEN Singers(song_list[1]) ELSE <<>>

\* get_album_detail after the await, given what _request gave
get_album_detail_result(req) ==
    IF req.kind = "raised" THEN req
    ELSE LET result == req.value IN
         IF soft_failure(result) THEN Returned(None)
         ELSE LET album_data == Get(result, "data", EmptyDict) IN
              IF album_data = EmptyDict THEN Returned(None)
              ELSE LET song_list == Get(album_data, "list", <<>>) IN
                   Returned([id |-> Get(album_data, "id", 0),
                             mid |-> Get(album_data, "mid", ""),
                             name |-> Get(album_data, "name", ""),
                             singers |-> album_singers(song_list),
                             publish_date |-> Get(album_data, "aDate", ""),
                             desc |-> Get(album_data, "desc", ""),
                             song_count |-> Get(album_data, "total_song_num",
                                                Len(song_list))])

\* Song(...) as get_album_songs builds it from one item of data.list: the flat
\* keys of this endpoint, no pay_play, no file
album_song(item) ==
    [id |-> Get(item, "songid", 0),
     mid |-> Get(item, "songmid", ""),
     name |-> Get(item, "songname", ""),
     album_id |-> Get(item, "albumid", 0),
     album_mid |-> Get(item, "albummid", ""),
     album_name |-> Get(item, "albumname", ""),
     singers |-> Singers(item),
     duration |-> Get(item, "interval", 0),
     pay_play |-> 0,
     file |-> None]

\* get_album_songs after the await, given what _request gave
get_album_songs_result(req) ==
    IF req.kind = "raised" THEN req
    ELSE LET result == req.value IN
         IF soft_failure(result) THEN Returned(<<>>)
         ELSE LET song_list == Get(Get(result, "data", EmptyDict), "list", <<>>)
              IN  Returned([i \in 1..Len(song_list) |-> album_song(song_list[i])])

\* get_album_detail, up to the await of self._request
get_album_detail ==
    /\ pc = "idle"
    /\ \E album_mid \in AlbumMids :
        /\ call' = [op |-> "get_album_detail", album_mid |-> album_mid]
        /\ sent' = Append(sent, album_request(album_mid))
    /\ pc' = "awaiting"
    /\ UNCHANGED <<untouched, reply, outcome, qualities>>

\* get_album_detail, from the await on
get_album_detail_resume ==
    /\ pc = "awaiting"
    /\ call.op = "get_album_detail"
    /\ \E r \in AlbumReplies :
        /\ reply' = r
        /\ outcome' = get_album_detail_result(_request(r))
    /\ pc' = "done"
    /\ UNCHANGED <<untouched, call, sent, qualities>>

\* get_album_songs, up to the await of self._request
get_album_songs ==
    /\ pc = "idle"
    /\ \E album_mid \in AlbumMids :
        /\ call' = [op |-> "get_album_songs", album_mid |-> album_mid]
        /\ sent' = Append(sent, album_request(album_mid))
    /\ pc' = "awaiting"
    /\ UNCHANGED <<untouched, reply, outcome, qualities>>

\* get_album_songs, from the await on
get_album_songs_resume ==
    /\ pc = "awaiting"
    /\ call.op = "get_album_songs"
    /\ \E r \in AlbumReplies :
        /\ reply' = r
        /\ outcome' = get_album_songs_result(_request(r))
    /\ pc' = "done"
    /\ UNCHANGED <<untouched, call, sent, qualities>>

---------------------------------------------------------------------------
(* get_playlist_detail                                                     *)

PlaylistIds == {705278357, 3}

CdWith(songlist) ==
    [dissid |-> 705278357, dissname |-> "My list", logo |-> "http://img/1.jpg",
     nick |-> "someone", visitnum |-> 12, songnum |-> 2, songlist |-> songlist]

Cds ==
    {EmptyDict, [dissname |-> "Bare list"]}
    \cup {CdWith(l) : l \in SeqUpTo(SearchItems, MaxList)}

CdLists == {<<>>} \cup {<<cd>> : cd \in Cds} \cup {<<cd, [dissname |-> "Second"]>> : cd \in Cds}

PlaylistSoftBodies ==
    {EmptyDict, [code |-> 1], [code |-> 1, cdlist |-> <<CdWith(<<ItemA>>)>>]}

PlaylistBodies ==
    {[code |-> 0]} \cup {[code |-> 0, cdlist |-> l] : l \in CdLists}
    \cup PlaylistSoftBodies

PlaylistReplies ==
    Replies(PlaylistBodies,
            PlaylistSoftBodies \cup {[code |-> 0, cdlist |-> <<CdWith(<<ItemB, ItemA>>)>>]})

\* the request get_playlist_detail builds and sends
get_playlist_detail_request(playlist_id) ==
    client_get(BASE_URLS.c \o "/qzone/fcg-bin/fcg_ucc_getcdinfo_byids_cp.fcg",
               [type |-> 1, json |-> 1, utf8 |-> 1, onlysong |-> 0,
                disstid |-> playlist_id, format |-> "json",
                inCharset |-> "utf8", outCharset |-> "utf-8"],
               EmptyDict)

\* Playlist(...) as get_playlist_detail builds it from cdlist[0]
playlist_of(cd) ==
    [id |-> Get(cd, "dissid", 0),
     name |-> Get(cd, "dissname", ""),
     cover |-> Get(cd, "logo", ""),
     creator |-> Get(cd, "nick", ""),
     listen_count |-> Get(cd, "visitnum", 0),
     song_count |-> Get(cd, "songnum", 0)]

\* Song(...) as get_playlist_detail builds it from one item of songlist: the
\* keys of search, no pay_play, no file
playlist_song(item) ==
    [id |-> Get(item, "id", 0),
     mid |-> Get(item, "mid", ""),
     name |-> Get(item, "name", ""),
     album_id |-> Get(Get(item, "album", EmptyDict), "id", 0),
     album_mid |-> Get(Get(item, "album", EmptyDict), "mid", ""),
     album_name |-> Get(Get(item, "album", EmptyDict), "name", ""),
     singers |-> Singers(item),
     duration |-> Get(item, "interval", 0),
     pay_play |-> 0,
     file |-> None]

\* get_playlist_detail after the await, given what _request gave
get_playlist_detail_result(req) ==
    IF req.kind = "raised" THEN req
    ELSE LET result == req.value IN
         IF soft_failure(result) THEN Returned(<<None, <<>>>>)
         ELSE LET cdlist == Get(result, "cdlist", <<>>) IN
              IF Len(cdlist) = 0 THEN Returned(<<None, <<>>>>)
              ELSE LET cd == cdlist[1]
                       songlist == Get(cd, "songlist", <<>>)
                   IN  Returned(<<playlist_of(cd),
                                  [i \in 1..Len(songlist) |-> playlist_song(songlist[i])]>>)

\* get_playlist_detail, up to the await of self._request
get_playlist_detail ==
    /\ pc = "idle"
    /\ \E playlist_id \in PlaylistIds :
        /\ call' = [op |-> "get_playlist_detail", playlist_id |-> playlist_id]
        /\ sent' = Append(sent, get_playlist_detail_request(playlist_id))
    /\ pc' = "awaiting"
    /\ UNCHANGED <<untouched, reply, outcome, qualities>>

\* get_playlist_detail, from the await on
get_playlist_detail_resume ==
    /\ pc = "awaiting"
    /\ call.op = "get_playlist_detail"
    /\ \E r \in PlaylistReplies :
        /\ reply' = r
        /\ outcome' = get_playlist_detail_result(_request(r))
    /\ pc' = "done"
    /\ UNCHANGED <<untouched, call, sent, qualities>>

---------------------------------------------------------------------------
(* get_album_cover: a static method, no await                              *)

CoverSizes == {150, 300, 500}

get_album_cover ==
    /\ pc = "idle"
    /\ \E album_mid \in AlbumMids, size \in CoverSizes :
        /\ call' = [op |-> "get_album_cover", album_mid |-> album_mid, size |-> size]
        /\ outcome' = Returned(ALBUM_COVER_URL(size, album_mid))
    /\ pc' = "done"
    /\ UNCHANGED <<untouched, sent, reply, qualities>>

---------------------------------------------------------------------------
(* The caller: may read the available_qualities property of the Tracks it  *)
(* was given, and takes the outcome of the invocation, after which the     *)
(* next invocation may start.                                              *)

TrackOps == {"search", "get_song_detail", "get_album_songs", "get_playlist_detail"}

\* the Tracks (Song instances) an operation's return value holds, in order
tracks_of(op, value) ==
    CASE op = "search" -> value.songs
      [] op = "get_song_detail" -> IF value = None THEN <<>> ELSE <<value>>
      [] op = "get_album_songs" -> value
      [] op = "get_playlist_detail" -> value[2]

\* the caller evaluates Song.available_qualities on every Track it was given
available_qualities ==
    /\ pc = "done"
    /\ call.op \in TrackOps
    /\ outcome.kind = "returned"
    /\ qualities = None
    /\ qualities' = LET ts == tracks_of(call.op, outcome.value)
                    IN  [read |-> [i \in 1..Len(ts) |->
                                        Song_available_qualities(ts[i])]]
    /\ UNCHANGED <<untouched, pc, call, sent, reply, outcome>>

Return ==
    /\ pc = "done"
    /\ pc' = "idle"
    /\ call' = None
    /\ sent' = <<>>
    /\ reply' = None
    /\ outcome' = None
    /\ qualities' = None
    /\ UNCHANGED untouched

Cookies ==
    {"", "uin=12345; qm_keyst=Q_H_L_5", "pgv_pvid=77; qm_keyst=Q_H_L_5",
     "p_uin=o07; wxuin=99; uin=12"}

\* the invocations that may run at once, and one that has not started
TaskIds == {1, 2}
IdleTask ==
    [shim |-> "none", pc |-> "idle", call |-> None, sent |-> <<>>, reply |-> None,
     outcome |-> None, answer |-> None, client |-> None]

\* the instance was constructed with an explicit cookie argument
Init ==
    /\ cookie \in Cookies
    /\ ctor = [cookie |-> Arg(cookie), env |-> EnvUnset]
    /\ headers = ClientHeaders
    /\ transport = NewTransport
    /\ calls = <<>>
    /\ tasks = [i \in TaskIds |-> IdleTask]
    /\ pc = "idle"
    /\ call = None
    /\ sent = <<>>
    /\ reply = None
    /\ outcome = None
    /\ qualities = None

Next ==
    \/ search
    \/ search_resume
    \/ get_song_detail
    \/ get_song_detail_resume
    \/ get_lyric
    \/ get_lyric_resume
    \/ get_song_url
    \/ get_song_url_resume
    \/ get_album_detail
    \/ get_album_detail_resume
    \/ get_album_songs
    \/ get_album_songs_resume
    \/ get_playlist_detail
    \/ get_playlist_detail_resume
    \/ get_album_cover
    \/ available_qualities
    \/ Return

Spec == Init /\ [][Next]_vars

---------------------------------------------------------------------------
(* The lifecycle of one instance: __init__, close, __aenter__, __aexit__,  *)
(* with operations on the instance before, between and after them.         *)

MaxCalls == 3

\* the cookie argument __init__ may be given, and what the environment holds
CookieArgs == {NoArg} \cup {Arg(c) : c \in Cookies}
Envs == {EnvUnset} \cup {EnvSet(c) : c \in Cookies}

\* an __init__ that tests "if not cookie" and so also replaces an empty argument
init_cookie_if_falsy(arg, env) ==
    IF arg = None \/ arg.str = "" THEN environ_get(env, "") ELSE arg.str

\* __init__: the argument when one is given, else the environment's value
init_cookie(arg, env) == IF arg = None THEN environ_get(env, "") ELSE arg.str

\* self._client.aclose(): releases the transport unless it is closed already
aclose(t, by) ==
    IF t.state # "closed"
    THEN [t EXCEPT !.state = "closed", !.released_by = Append(@, by)]
    ELSE t

\* close(): await self._client.aclose()
close ==
    /\ Len(calls) < MaxCalls
    /\ calls' = Append(calls, "close")
    /\ transport' = aclose(transport, "close")
    /\ UNCHANGED <<cookie, ctor, headers, tasks, pc, call, sent, reply, outcome, qualities>>

\* __aenter__(): return self
__aenter__ ==
    /\ Len(calls) < MaxCalls
    /\ calls' = Append(calls, "__aenter__")
    /\ UNCHANGED <<cookie, ctor, headers, tasks, transport, pc, call, sent, reply,
                   outcome, qualities>>

\* a scoped exit that leaves the transport as it is
aexit_without_close ==
    /\ Len(calls) < MaxCalls
    /\ calls' = Append(calls, "__aexit__")
    /\ UNCHANGED <<cookie, ctor, headers, tasks, transport, pc, call, sent, reply,
                   outcome, qualities>>

\* __aexit__(): await self.close()
__aexit__ ==
    /\ Len(calls) < MaxCalls
    /\ calls' = Append(calls, "__aexit__")
    /\ transport' = aclose(transport, "__aexit__")
    /\ UNCHANGED <<cookie, ctor, headers, tasks, pc, call, sent, reply, outcome, qualities>>

\* an operation invoked after the transport was closed: the self._client.get
\* of _request raises before anything is sent
send_on_closed ==
    /\ pc = "idle"
    /\ transport.state = "closed"
    /\ \E playlist_id \in PlaylistIds :
            call' = [op |-> "get_playlist_detail", playlist_id |-> playlist_id]
    /\ outcome' = Raised("RuntimeError")
    /\ pc' = "done"
    /\ UNCHANGED <<untouched, sent, reply, qualities>>

\* any argument, any environment
LifecycleInit ==
    /\ ctor \in [cookie : CookieArgs, env : Envs]
    /\ cookie = init_cookie(ctor.cookie, ctor.env)
    /\ headers = ClientHeaders
    /\ transport = NewTransport
    /\ calls = <<>>
    /\ tasks = [i \in TaskIds |-> IdleTask]
    /\ pc = "idle"
    /\ call = None
    /\ sent = <<>>
    /\ reply = None
    /\ outcome = None
    /\ qualities = None

LifecycleNext ==
    \/ close
    \/ __aenter__
    \/ __aexit__
    \/ (transport.state = "open" /\ get_playlist_detail)
    \/ get_playlist_detail_resume
    \/ send_on_closed
    \/ get_album_cover
    \/ Return

LifecycleSpec == LifecycleInit /\ [][LifecycleNext]_vars

---------------------------------------------------------------------------
(* The presentation shims.  The REST routes (api.py) all use the one       *)
(* instance the lifespan handler constructed; every tool function          *)
(* (server.py) constructs an instance of its own in an "async with" block. *)
(* Invocations run concurrently: each suspends at the await of its client  *)
(* operation, and a tool function once more in __aexit__.                  *)

\* str.join
RECURSIVE join(_, _)
join(sep, strs) ==
    IF Len(strs) = 0 THEN ""
    ELSE IF Len(strs) = 1 THEN strs[1]
    ELSE strs[1] \o sep \o join(sep, Tail(strs))

\* str.split(","), from position i on with the piece cur begun
RECURSIVE split_comma(_, _, _, _)
split_comma(str, i, cur, out) ==
    IF i > Len(str) THEN Append(out, cur)
    ELSE IF SubSeq(str, i, i) = "," THEN split_comma(str, i + 1, "", Append(out, cur))
    ELSE split_comma(str, i + 1, cur \o SubSeq(str, i, i), out)

\* str.strip()
RECURSIVE strip(_)
strip(str) ==
    IF Len(str) = 0 THEN str
    ELSE IF SubSeq(str, 1, 1) \in {" ", "\t", "\n"} THEN strip(SubSeq(str, 2, Len(str)))
    ELSE IF SubSeq(str, Len(str), Len(str)) \in {" ", "\t", "\n"}
         THEN strip(SubSeq(str, 1, Len(str) - 1))
    ELSE str

\* [m.strip() for m in mids.split(",") if m.strip()]
mid_list_of(mids) ==
    LET pieces == split_comma(mids, 1, "", <<>>)
        stripped == [i \in 1..Len(pieces) |-> strip(pieces[i])]
    IN  SelectSeq(stripped, LAMBDA m : m # "")

\* Song.singer_names
singer_names(singers) == join(" / ", [i \in 1..Len(singers) |-> singers[i].name])

\* _format_song
_format_song(song) ==
    [mid |-> song.mid,
     name |-> song.name,
     singers |-> singer_names(song.singers),
     album |-> song.album_name,
     album_mid |-> song.album_mid,
     duration_seconds |-> song.duration,
     available_qualities |-> IF song.file # None THEN Song_available_qualities(song)
                             ELSE <<>>]

\* _format_album
_format_album(album) ==
    [mid |-> album.mid,
     name |-> album.name,
     singers |-> singer_names(album.singers),
     publish_date |-> album.publish_date,
     description |-> album.desc,
     song_count |-> album.song_count]

\* _format_playlist
_format_playlist(playlist) ==
    [id |-> playlist.id,
     name |-> playlist.name,
     cover |-> playlist.cover,
     creator |-> playlist.creator,
     listen_count |-> playlist.listen_count,
     song_count |-> playlist.song_count]

\* the error texts of the tool functions, as JSON escapes them
SongMissing == "\\u6b4c\\u66f2\\u4e0d\\u5b58\\u5728"
AlbumMissing == "\\u4e13\\u8f91\\u4e0d\\u5b58\\u5728"
PlaylistMissing == "\\u6b4c\\u5355\\u4e0d\\u5b58\\u5728"
NoValidMids == "\\u8bf7\\u63d0\\u4f9b\\u6709\\u6548\\u7684\\u6b4c\\u66f2 MID"

\* the client operation a route or a tool function awaits
ClientOp ==
    [get_song |-> "get_song_detail", get_quality |-> "get_song_detail",
     get_lyric |-> "get_lyric", get_album |-> "get_album_detail",
     get_playlist |-> "get_playlist_detail",
     get_song_detail |-> "get_song_detail", get_song_quality |-> "get_song_detail",
     get_album_detail |-> "get_album_detail",
     get_playlist_detail |-> "get_playlist_detail",
     get_batch_song_urls |-> "get_song_url"]

\* the invocations of the routes and of the tool functions
RestCalls ==
    {[fn |-> f, song_mid |-> "A"] : f \in {"get_song", "get_quality", "get_lyric"}}
    \cup {[fn |-> "get_album", album_mid |-> "AL1"],
          [fn |-> "get_playlist", playlist_id |-> 3]}

ToolCalls ==
    {[fn |-> f, song_mid |-> "A"] : f \in {"get_song_detail", "get_song_quality"}}
    \cup {[fn |-> "get_album_detail", album_mid |-> "AL1"],
          [fn |-> "get_playlist_detail", playlist_id |-> 3]}
    \cup {[fn |-> "get_batch_song_urls", mids |-> m, quality |-> "flac",
           guid |-> "1000000000"] : m \in {"A, B", " , "}}

\* the request the awaited client operation sends
call_request(c) ==
    CASE ClientOp[c.fn] = "get_song_detail" -> get_song_detail_request(c.song_mid)
      [] ClientOp[c.fn] = "get_lyric" -> get_lyric_request(c.song_mid)
      [] ClientOp[c.fn] = "get_album_detail" -> album_request(c.album_mid)
      [] ClientOp[c.fn] = "get_playlist_detail" -> get_playlist_detail_request(c.playlist_id)
      [] ClientOp[c.fn] = "get_song_url" ->
            get_song_url_requests([list |-> mid_list_of(c.mids)], c.quality, c.guid)[1]

\* the headers that request passes to self._client.get
call_headers(c) ==
    IF ClientOp[c.fn] = "get_lyric"
    THEN "Referer" :> "https://y.qq.com/portal/player.html"
    ELSE <<>>

\* the awaited client operation, from its await on, resumed on reply r
call_result(c, r) ==
    CASE ClientOp[c.fn] = "get_song_detail" -> get_song_detail_result(_request(r))
      [] ClientOp[c.fn] = "get_lyric" -> get_lyric_result(get_lyric_response(r))
      [] ClientOp[c.fn] = "get_album_detail" -> get_album_detail_result(_request(r))
      [] ClientOp[c.fn] = "get_playlist_detail" -> get_playlist_detail_result(_request(r))
      [] ClientOp[c.fn] = "get_song_url" -> get_song_url_result(c.quality, _request(r))

\* what upstream may answer to it
ShimBodies(op) ==
    CASE op = "get_song_detail" ->
            {[code |-> 0, songinfo |-> [data |-> [track_info |-> TrackWith([size_flac |-> 5])]]],
             [code |-> 0, songinfo |-> [data |-> EmptyDict]],
             [code |-> 1]}
      [] op = "get_lyric" -> {[code |-> 0, lyric |-> "aGVsbG8="], [code |-> -1901]}
      [] op = "get_album_detail" ->
            {[code |-> 0, data |-> [mid |-> "AL1", name |-> "Album 1",
                                    list |-> <<AlbumItemA>>]],
             [code |-> 0], [code |-> 1]}
      [] op = "get_playlist_detail" ->
            {[code |-> 0, cdlist |-> <<CdWith(<<ItemA>>)>>],
             [code |-> 0, cdlist |-> <<>>], [code |-> 1]}
      [] op = "get_song_url" ->
            {[code |-> 0, req_0 |-> [data |-> [sip |-> <<"http://ws.stream.qqmusic.qq.com/">>,
                                               midurlinfo |-> <<UrlInfoA, UrlInfoB>>]]],
             [code |-> 0, req_0 |-> [data |-> [sip |-> <<>>]]],
             [code |-> 1]}

ShimReplies(op) ==
    {[kind |-> "response", status |-> 200, text |-> Plain(b)] : b \in ShimBodies(op)}
    \cup {[kind |-> "response", status |-> 200, text |-> Text("", RawBody("<html>"), "")],
          [kind |-> "response", status |-> 500, text |-> Plain(EmptyDict)],
          [kind |-> "error", error |-> "ConnectError"]}

\* BaseResponse and its subclasses: code, message, data
Response(code, message, data) == [code |-> code, message |-> message, data |-> data]

\* routes of which get_song wraps whatever the client returned
rest_answer_song_unchecked(c, result) ==
    IF result.kind = "raised" THEN result
    ELSE LET v == result.value IN
         CASE c.fn = "get_song" -> Returned(Response(0, "success", v))
           [] c.fn = "get_quality" ->
                IF v = None THEN Returned(Response(404, "Song not found", None))
                ELSE Returned(Response(0, "success",
                        [mid |-> v.mid, name |-> v.name,
                         available_qualities |-> Song_available_qualities(v),
                         file |-> v.file]))
           [] c.fn = "get_lyric" -> Returned(Response(0, "success", v))
           [] c.fn = "get_album" ->
                IF v = None THEN Returned(Response(404, "Album not found", None))
                ELSE Returned(Response(0, "success", v))
           [] c.fn = "get_playlist" ->
                IF v[1] = None THEN Returned(Response(404, "Playlist not found", None))
                ELSE Returned(Response(0, "success", [playlist |-> v[1], songs |-> v[2]]))

\* what a REST route does with the result of its client operation; an
\* exception leaves the route as it came
rest_answer(c, result) ==
    IF result.kind = "raised" THEN result
    ELSE LET v == result.value IN
         CASE c.fn = "get_song" ->
                IF v = None THEN Returned(Response(404, "Song not found", None))
                ELSE Returned(Response(0, "success", v))
           [] c.fn = "get_quality" ->
                IF v = None THEN Returned(Response(404, "Song not found", None))
                ELSE Returned(Response(0, "success",
                        [mid |-> v.mid, name |-> v.name,
                         available_qualities |-> Song_available_qualities(v),
                         file |-> v.file]))
           [] c.fn = "get_lyric" -> Returned(Response(0, "success", v))
           [] c.fn = "get_album" ->
                IF v = None THEN Returned(Response(404, "Album not found", None))
                ELSE Returned(Response(0, "success", v))
           [] c.fn = "get_playlist" ->
                IF v[1] = None THEN Returned(Response(404, "Playlist not found", None))
                ELSE Returned(Response(0, "success", [playlist |-> v[1], songs |-> v[2]]))

\* what a tool function does with the result of its client operation; an
\* exception leaves the "async with" block as it came
tool_answer(c, result) ==
    IF result.kind = "raised" THEN result
    ELSE LET v == result.value IN
         CASE c.fn = "get_song_detail" ->
                IF v = None THEN Returned(json_dumps([error |-> SongMissing]))
                ELSE Returned(json_dumps(_format_song(v)))
           [] c.fn = "get_song_quality" ->
                IF v = None THEN Returned(json_dumps([error |-> SongMissing]))
                ELSE Returned(json_dumps(
                        [mid |-> v.mid, name |-> v.name,
                         available_qualities |-> Song_available_qualities(v)]))
           [] c.fn = "get_album_detail" ->
                IF v = None THEN Returned(json_dumps([error |-> AlbumMissing]))
                ELSE Returned(json_dumps(
                        ("cover_url" :> ALBUM_COVER_URL(500, c.album_mid))
                            @@ _format_album(v)))
           [] c.fn = "get_playlist_detail" ->
                IF v[1] = None THEN Returned(json_dumps([error |-> PlaylistMissing]))
                ELSE Returned(json_dumps(
                        ("songs" :> [k \in 1..Len(v[2]) |-> _format_song(v[2][k])])
                            @@ _format_playlist(v[1])))
           [] c.fn = "get_batch_song_urls" ->
                Returned(json_dumps(
                    [quality |-> c.quality,
                     urls |-> [k \in 1..Len(v) |->
                                [mid |-> v[k].mid, url |-> v[k].url, size |-> v[k].size]]]))

\* a send that writes its own headers into the client's
client_headers_updated(request_headers, hdrs) == request_headers @@ hdrs

\* self._client.headers after self._client.get(url, params=..., headers=...):
\* the headers of one request are an argument of that request
client_headers_after(request_headers, hdrs) == hdrs

\* a route: client = get_client(), then the client operation up to its await
rest_route(i) ==
    /\ tasks[i].pc = "idle"
    /\ transport.state = "open"
    /\ \E c \in RestCalls :
        /\ tasks' = [tasks EXCEPT ![i] =
                        [IdleTask EXCEPT !.shim = "rest", !.pc = "awaiting", !.call = c,
                                         !.sent = <<call_request(c)>>]]
        /\ headers' = client_headers_after(call_headers(c), headers)
    /\ UNCHANGED <<cookie, ctor, transport, calls, pc, call, sent, reply, outcome,
                   qualities>>

\* a route, from the await on
rest_resume(i) ==
    /\ tasks[i].pc = "awaiting"
    /\ tasks[i].shim = "rest"
    /\ \E r \in ShimReplies(ClientOp[tasks[i].call.fn]) :
        LET result == call_result(tasks[i].call, r) IN
        tasks' = [tasks EXCEPT ![i].pc = "ended", ![i].reply = r,
                               ![i].outcome = result,
                               ![i].answer = rest_answer(tasks[i].call, result)]
    /\ UNCHANGED <<cookie, ctor, headers, transport, calls, pc, call, sent, reply,
                   outcome, qualities>>

\* QQMusicClient() as a tool function constructs it, entered
tool_client ==
    [cookie |-> init_cookie(NoArg, ctor.env),
     headers |-> ClientHeaders,
     transport |-> NewTransport,
     calls |-> <<"__aenter__">>]

\* a tool function up to its first await: get_batch_song_urls returns before
\* the "async with" when no mid is left, every other call enters the block
\* and sends
tool_entered(c) ==
    IF c.fn = "get_batch_song_urls" /\ mid_list_of(c.mids) = <<>>
    THEN [IdleTask EXCEPT !.shim = "tool", !.pc = "ended", !.call = c,
                          !.answer = Returned(json_dumps([error |-> NoValidMids]))]
    ELSE [IdleTask EXCEPT !.shim = "tool", !.pc = "awaiting", !.call = c,
                          !.client = tool_client,
                          !.sent = <<[call_request(c) EXCEPT
                                        !.headers = call_headers(c) @@ tool_client.headers]>>]

tool_enter(i) ==
    /\ tasks[i].pc = "idle"
    /\ \E c \in ToolCalls : tasks' = [tasks EXCEPT ![i] = tool_entered(c)]
    /\ UNCHANGED <<cookie, ctor, headers, transport, calls, pc, call, sent, reply,
                   outcome, qualities>>

\* a tool function, from the await of the client operation to the end of the
\* block
tool_resume(i) ==
    /\ tasks[i].pc = "awaiting"
    /\ tasks[i].shim = "tool"
    /\ \E r \in ShimReplies(ClientOp[tasks[i].call.fn]) :
        LET result == call_result(tasks[i].call, r) IN
        tasks' = [tasks EXCEPT ![i].pc = "exiting", ![i].reply = r,
                               ![i].outcome = result,
                               ![i].answer = tool_answer(tasks[i].call, result)]
    /\ UNCHANGED <<cookie, ctor, headers, transport, calls, pc, call, sent, reply,
                   outcome, qualities>>

\* an exit that closes the client only when the block ended without exception
tool_exit_on_return_only(i) ==
    /\ tasks[i].pc = "exiting"
    /\ tasks' = [tasks EXCEPT
                    ![i].pc = "ended",
                    ![i].client.calls = Append(@, "__aexit__"),
                    ![i].client.transport =
                        IF tasks[i].outcome.kind = "returned"
                        THEN aclose(@, "__aexit__") ELSE @]
    /\ UNCHANGED <<cookie, ctor, headers, transport, calls, pc, call, sent, reply,
                   outcome, qualities>>

\* the end of the "async with" block: __aexit__ closes the client, after a
\* return and after an exception alike
tool_exit(i) ==
    /\ tasks[i].pc = "exiting"
    /\ tasks' = [tasks EXCEPT
                    ![i].pc = "ended",
                    ![i].client.calls = Append(@, "__aexit__"),
                    ![i].client.transport = aclose(@, "__aexit__")]
    /\ UNCHANGED <<cookie, ctor, headers, transport, calls, pc, call, sent, reply,
                   outcome, qualities>>

\* the caller of the shim takes its answer
task_return(i) ==
    /\ tasks[i].pc = "ended"
    /\ tasks' = [tasks EXCEPT ![i] = IdleTask]
    /\ UNCHANGED <<cookie, ctor, headers, transport, calls, pc, call, sent, reply,
                   outcome, qualities>>

\* after lifespan has constructed the shared instance: QQMusicClient(), the
\* credential from the environment
ServerInit ==
    /\ ctor \in [cookie : {NoArg}, env : Envs]
    /\ cookie = init_cookie(ctor.cookie, ctor.env)
    /\ headers = ClientHeaders
    /\ transport = NewTransport
    /\ calls = <<>>
    /\ tasks = [i \in TaskIds |-> IdleTask]
    /\ pc = "idle"
    /\ call = None
    /\ sent = <<>>
    /\ reply = None
    /\ outcome = None
    /\ qualities = None

ServerNext ==
    \/ \E i \in TaskIds : rest_route(i)
    \/ \E i \in TaskIds : rest_resume(i)
    \/ \E i \in TaskIds : tool_enter(i)
    \/ \E i \in TaskIds : tool_resume(i)
    \/ \E i \in TaskIds : tool_exit(i)
    \/ \E i \in TaskIds : task_return(i)

ServerSpec == ServerInit /\ [][ServerNext]_vars

---------------------------------------------------------------------------
(* Properties.                                                             *)

NetworkOps == {"search", "get_song_detail", "get_lyric", "get_song_url",
               "get_album_detail", "get_album_songs", "get_playlist_detail"}

\* an invocation of a network operation has ended
Ended == pc = "done" /\ call.op \in NetworkOps

\* the transport call gave a response with a success status
TransportSucceeded == reply.kind = "response" /\ reply.status \in 200..299

\* what the operation decoded from the response
Decoded == IF call.op = "get_lyric" THEN get_lyric_response(reply) ELSE _request(reply)

\* the response decoded to an object whose status field is not 0
StatusNot0 ==
    /\ Decoded.kind = "returned"
    /\ "code" \notin DOMAIN Decoded.value \/ Decoded.value.code # 0

\* the response decoded to an object whose status field is 0
Status0 ==
    /\ Decoded.kind = "returned"
    /\ "code" \in DOMAIN Decoded.value
    /\ Decoded.value.code = 0

\* C1: whenever the transport call of a network operation succeeds and the
\* decoded response's status field is not 0, the operation returns its empty
\* value (search: no tracks and total 0 under the caller's keyword;
\* get_song_detail and get_album_detail: None; get_lyric: two empty texts;
\* get_song_url and get_album_songs: the empty list; get_playlist_detail:
\* (None, [])) and raises nothing.
C1_SoftFailureReturnsEmpty ==
    (Ended /\ TransportSucceeded /\ StatusNot0) =>
        /\ outcome.kind = "returned"
        /\ CASE call.op = "search" ->
                    /\ outcome.value.keyword = call.keyword
                    /\ outcome.value.total = 0
                    /\ outcome.value.songs = <<>>
             [] call.op = "get_song_detail" -> outcome.value = None
             [] call.op = "get_lyric" -> outcome.value = [lyric |-> "", trans |-> ""]
             [] call.op = "get_song_url" -> outcome.value = <<>>
             [] call.op = "get_album_detail" -> outcome.value = None
             [] call.op = "get_album_songs" -> outcome.value = <<>>
             [] call.op = "get_playlist_detail" -> outcome.value = <<None, <<>>>>

\* a collection lookup answered with a non-zero status and a full cdlist gave
\* (None, [])
C1_Witness ==
    /\ Ended /\ call.op = "get_playlist_detail"
    /\ TransportSucceeded /\ StatusNot0
    /\ "code" \in DOMAIN Decoded.value
    /\ "cdlist" \in DOMAIN Decoded.value
    /\ outcome = Returned(<<None, <<>>>>)

\* C2: when the transport raises, or the response has a non-success status,
\* a network operation ends by raising that error (the transport's own error,
\* or the status error of raise_for_status), whatever the body holds, on the
\* lyric path too.
C2_TransportFailureRaises ==
    Ended =>
        /\ reply.kind = "error" => outcome = Raised(reply.error)
        /\ (reply.kind = "response" /\ reply.status \notin 200..299) =>
                outcome = Raised("HTTPStatusError")

\* a lyric lookup answered 500 with a well-formed status-0 body raised
C2_Witness ==
    /\ Ended /\ call.op = "get_lyric"
    /\ reply.kind = "response" /\ reply.status = 500
    /\ reply.text = Plain([code |-> 0, lyric |-> "aGVsbG8=", trans |-> "5Lit"])
    /\ outcome = Raised("HTTPStatusError")

\* the list of mids the one request of get_song_url carries
SentMids == sent[1].params.data.json_text_of.req_0.param.songmid

\* C3: from its await to its end an invocation of a network operation has
\* issued exactly one upstream request, whatever the outcome; the request of
\* get_song_url carries every requested mid; get_album_cover issues none.
C3_OneRequestPerInvocation ==
    /\ (pc \in {"awaiting", "done"} /\ call.op \in NetworkOps) => Len(sent) = 1
    /\ (pc \in {"awaiting", "done"} /\ call.op = "get_song_url") =>
            SentMids = song_mids_of(call.song_mid)
    /\ (pc = "done" /\ call.op = "get_album_cover") => Len(sent) = 0
    /\ pc = "idle" => Len(sent) = 0

\* a batch of two mids whose response failed to decode: one request was sent
C3_Witness ==
    /\ Ended /\ call.op = "get_song_url"
    /\ Len(song_mids_of(call.song_mid)) = 2
    /\ outcome = Raised("JSONDecodeError")
    /\ Len(sent) = 1

\* get_song_url ended on a response with a success status and status field 0
UrlAnswered == Ended /\ call.op = "get_song_url" /\ TransportSucceeded /\ Status0

\* the data object, the resolution records and the shared prefixes upstream sent
UpstreamReqData == Get(Get(Decoded.value, "req_0", EmptyDict), "data", EmptyDict)
UpstreamRecords == Get(UpstreamReqData, "midurlinfo", <<>>)
SipIsEmptyList == "sip" \in DOMAIN UpstreamReqData /\ Len(UpstreamReqData.sip) = 0
FirstSip == IF "sip" \in DOMAIN UpstreamReqData THEN UpstreamReqData.sip[1] ELSE ""

\* the requested mid has no record with a path among the upstream records
NoPlayablePath(mid) ==
    \A i \in 1..Len(UpstreamRecords) :
        Get(UpstreamRecords[i], "songmid", "") = mid
            => Get(UpstreamRecords[i], "purl", "") = ""

\* C4 as claimed: on a status-0 answer get_song_url returns one locator per
\* requested identifier, and every requested identifier with no playable path
\* has a present locator with empty URL and size 0.  It is stated for the
\* answers that list no more records than identifiers were asked; the answer
\* with an empty shared-prefix list, on which the call raises, is left aside
\* here: it is the subject of C5.
C4_OneLocatorPerRequestedId ==
    (/\ UrlAnswered
     /\ ~SipIsEmptyList
     /\ Len(UpstreamRecords) <= Len(song_mids_of(call.song_mid))) =>
        LET mids == song_mids_of(call.song_mid) IN
        /\ outcome.kind = "returned"
        /\ Len(outcome.value) = Len(mids)
        /\ \A k \in 1..Len(mids) :
              NoPlayablePath(mids[k]) =>
                \E j \in 1..Len(outcome.value) :
                    /\ outcome.value[j].mid = mids[k]
                    /\ outcome.value[j].url = ""
                    /\ outcome.value[j].size = 0

\* C4 as amended: on a status-0 answer the result has one locator per upstream
\* resolution record, at the record's position, and a record with no path
\* fragment gives a present locator with the record's mid, empty URL and size
\* 0; the call fails only when the shared-prefix list is present and empty,
\* whatever the records hold.
C4_OneLocatorPerUpstreamRecord ==
    UrlAnswered =>
        IF SipIsEmptyList THEN outcome = Raised("IndexError")
        ELSE /\ outcome.kind = "returned"
             /\ Len(outcome.value) = Len(UpstreamRecords)
             /\ \A i \in 1..Len(UpstreamRecords) :
                  Get(UpstreamRecords[i], "purl", "") = "" =>
                    /\ outcome.value[i].mid = Get(UpstreamRecords[i], "songmid", "")
                    /\ outcome.value[i].url = ""
                    /\ outcome.value[i].size = 0

\* [A, B] was asked, upstream listed both with a path for A only: two
\* locators, the first with a URL, the second empty
C4_Witness ==
    /\ UrlAnswered
    /\ song_mids_of(call.song_mid) = <<"A", "B">>
    /\ UpstreamRecords = <<UrlInfoA, UrlInfoB>>
    /\ "sip" \in DOMAIN UpstreamReqData
    /\ outcome.kind = "returned"
    /\ Len(outcome.value) = 2
    /\ outcome.value[1].url = "http://ws.stream.qqmusic.qq.com/C400AA.m4a?vkey=1"
    /\ outcome.value[2] = [mid |-> "B", url |-> "", quality |-> call.quality, size |-> 0]

\* C5: on a status-0 answer get_song_url returns the element-wise image of
\* the upstream resolution records, same length and order: the i-th locator
\* has the i-th record's mid and the requested tier, and first shared prefix
\* + path with the reported size when the path is non-empty, else "" and 0.
C5_LocatorsMirrorRecords ==
    UrlAnswered =>
        /\ outcome.kind = "returned"
        /\ Len(outcome.value) = Len(UpstreamRecords)
        /\ \A i \in 1..Len(UpstreamRecords) :
              LET rec == UpstreamRecords[i]
                  loc == outcome.value[i]
              IN  /\ loc.mid = Get(rec, "songmid", "")
                  /\ loc.quality = call.quality
                  /\ IF Get(rec, "purl", "") # ""
                     THEN /\ loc.url = FirstSip \o rec.purl
                          /\ loc.size = Get(rec, "filesize", 0)
                     ELSE loc.url = "" /\ loc.size = 0

KnownTiers == {"m4a", "128", "320", "flac", "ape", "hires", "atmos"}

\* the type code the search table gives, 0 for a type outside it
TableCode(search_type) ==
    CASE search_type = "song" -> 0
      [] search_type = "album" -> 2
      [] search_type = "playlist" -> 3
      [] search_type = "mv" -> 4
      [] search_type = "lyric" -> 7
      [] search_type = "user" -> 8
      [] OTHER -> 0

\* the filenames of the 128 tier for a list of mids
Filenames128(mids) == [i \in 1..Len(mids) |-> "M500" \o mids[i] \o mids[i] \o ".mp3"]

\* C6: for a tier name outside the seven known ones get_song_url sends the
\* request it sends for tier 128 (filenames M500<mid><mid>.mp3); search sends
\* the table code of a known type and 0 for any other type; neither is
\* rejected: the request is sent.
C6_UnknownEnumsNormalized ==
    /\ (pc \in {"awaiting", "done"} /\ call.op = "get_song_url"
            /\ call.quality \notin KnownTiers) =>
          /\ Len(sent) = 1
          /\ sent[1].params.data.json_text_of.req_0.param.filename
                = Filenames128(song_mids_of(call.song_mid))
          /\ sent = get_song_url_requests(call.song_mid, "128", call.guid)
    /\ (pc \in {"awaiting", "done"} /\ call.op = "search") =>
          /\ Len(sent) = 1
          /\ sent[1].params.t = TableCode(call.search_type)

\* tier "lossless" was asked for [A, B]: the request names M500AA.mp3, M500BB.mp3
C6_Witness ==
    /\ pc = "awaiting" /\ call.op = "get_song_url"
    /\ call.quality = "lossless"
    /\ call.song_mid = [list |-> <<"A", "B">>]
    /\ sent[1].params.data.json_text_of.req_0.param.filename
            = <<"M500AA.mp3", "M500BB.mp3">>

TierOrder == <<"m4a", "128", "320", "flac", "ape", "hires", "atmos">>

\* the size a ledger records for a tier
SizeOf(ledger, tier) ==
    CASE tier = "m4a" -> ledger.size_m4a
      [] tier = "128" -> ledger.size_128
      [] tier = "320" -> ledger.size_320
      [] tier = "flac" -> ledger.size_flac
      [] tier = "ape" -> ledger.size_ape
      [] tier = "hires" -> ledger.size_hires
      [] tier = "atmos" -> ledger.size_atmos

\* the caller of get_song_detail was given a Track and has read its qualities
DetailQualitiesRead ==
    /\ pc = "done" /\ call.op = "get_song_detail"
    /\ outcome.kind = "returned" /\ outcome.value # None
    /\ qualities # None

\* C7: the qualities reported for a ledger are the tiers, in the order m4a,
\* 128, 320, flac, ape, hires, atmos, whose recorded size is greater than 0,
\* each once; a size of 0 or less never makes a tier available.
C7_AvailableQualities ==
    DetailQualitiesRead =>
        LET ledger == outcome.value.file
            got == qualities.read[1]
        IN  /\ got = SelectSeq(TierOrder, LAMBDA t : SizeOf(ledger, t) > 0)
            /\ \A t \in KnownTiers :
                  (\E i \in 1..Len(got) : got[i] = t) <=> SizeOf(ledger, t) > 0
            /\ \A i, j \in 1..Len(got) : got[i] = got[j] => i = j

\* a ledger with negative, zero and positive sizes: 128, flac and atmos
C7_Witness ==
    /\ DetailQualitiesRead
    /\ outcome.value.file =
            [size_m4a |-> -1, size_128 |-> 5, size_320 |-> 0, size_flac |-> 5,
             size_ape |-> -1, size_hires |-> 0, size_atmos |-> 5]
    /\ qualities.read = << <<"128", "flac", "atmos">> >>

\* the track object upstream sent to get_song_detail
UpstreamTrack ==
    Get(Get(Get(Decoded.value, "songinfo", EmptyDict), "data", EmptyDict),
        "track_info", EmptyDict)

\* C8: a Track returned by get_song_detail carries a ledger, whose sizes are
\* the upstream ones and 0 where upstream has none; a Track returned by
\* search, get_album_songs or get_playlist_detail has no ledger, whatever
\* upstream sent; a Track with no ledger reports no available quality.
C8_LedgerOnlyFromDetail ==
    /\ (Ended /\ call.op = "get_song_detail" /\ outcome.kind = "returned"
            /\ outcome.value # None) =>
          LET f == Get(UpstreamTrack, "file", EmptyDict)
              ledger == outcome.value.file
          IN  /\ ledger # None
              /\ ledger.size_m4a = Get(f, "size_96aac", 0)
              /\ ledger.size_128 = Get(f, "size_128mp3", 0)
              /\ ledger.size_320 = Get(f, "size_320mp3", 0)
              /\ ledger.size_flac = Get(f, "size_flac", 0)
              /\ ledger.size_ape = Get(f, "size_ape", 0)
              /\ ledger.size_hires = Get(f, "size_hires", 0)
              /\ ledger.size_atmos = Get(f, "size_dolby", 0)
    /\ (Ended /\ call.op \in {"search", "get_album_songs", "get_playlist_detail"}
            /\ outcome.kind = "returned") =>
          LET ts == tracks_of(call.op, outcome.value)
          IN  \A i \in 1..Len(ts) : ts[i].file = None
    /\ (Ended /\ call.op \in TrackOps /\ outcome.kind = "returned"
            /\ qualities # None) =>
          LET ts == tracks_of(call.op, outcome.value)
          IN  \A i \in 1..Len(ts) : ts[i].file = None => qualities.read[i] = <<>>

\* the song object upstream sent to search
UpstreamSongData == Get(Get(Decoded.value, "data", EmptyDict), "song", EmptyDict)
UpstreamList == Get(UpstreamSongData, "list", <<>>)

\* search found an item that carries file sizes upstream: its Track has no
\* ledger and reports no quality
C8_Witness ==
    /\ Ended /\ call.op = "search" /\ TransportSucceeded /\ Status0
    /\ UpstreamList = <<ItemA>>
    /\ "file" \in DOMAIN UpstreamList[1]
    /\ outcome.kind = "returned"
    /\ outcome.value.songs[1].file = None
    /\ qualities # None
    /\ qualities.read = << <<>> >>

\* C9 as claimed: every SearchPage search returns, on success and on soft
\* failure alike, carries the keyword, the page number and the page size the
\* caller asked for.
C9_EchoAlways ==
    (Ended /\ call.op = "search" /\ outcome.kind = "returned") =>
        /\ outcome.value.keyword = call.keyword
        /\ outcome.value.page = call.page
        /\ outcome.value.page_size = call.page_size

\* C9 as amended: on success the SearchPage carries the keyword, page number
\* and page size asked for, the upstream total (0 when upstream sends none)
\* and the Tracks of the upstream list in its order; on a soft failure it
\* carries the keyword only, with total 0, page 1, page size 20 and no Track.
C9_EchoOnSuccessDefaultsOnSoftFailure ==
    /\ (Ended /\ call.op = "search" /\ TransportSucceeded /\ Status0) =>
          /\ outcome.kind = "returned"
          /\ outcome.value.keyword = call.keyword
          /\ outcome.value.page = call.page
          /\ outcome.value.page_size = call.page_size
          /\ outcome.value.total = Get(UpstreamSongData, "totalnum", 0)
          /\ Len(outcome.value.songs) = Len(UpstreamList)
          /\ \A i \in 1..Len(UpstreamList) :
                /\ outcome.value.songs[i].mid = Get(UpstreamList[i], "mid", "")
                /\ outcome.value.songs[i].id = Get(UpstreamList[i], "id", 0)
                /\ outcome.value.songs[i].name = Get(UpstreamList[i], "name", "")
    /\ (Ended /\ call.op = "search" /\ TransportSucceeded /\ StatusNot0) =>
          outcome = Returned([keyword |-> call.keyword, total |-> 0, page |-> 1,
                              page_size |-> 20, songs |-> <<>>])

\* page 2 with page size 2 was asked and upstream answered a non-zero status:
\* the SearchPage says page 1 and page size 20
C9_Witness ==
    /\ Ended /\ call.op = "search" /\ TransportSucceeded /\ StatusNot0
    /\ call.page = 2 /\ call.page_size = 2
    /\ outcome.kind = "returned"
    /\ outcome.value.keyword = call.keyword
    /\ outcome.value.page = 1
    /\ outcome.value.page_size = 20

Releasers == {"close", "__aexit__"}

\* C11: the instance holds the one transport it acquired at construction;
\* once close() or a scoped exit was called, however often and in whatever
\* order, the transport has been released exactly once, by one of them; as
\* long as neither was called it has not been released, whatever operations
\* ran on the instance.
C11_TransportReleasedOnce ==
    /\ transport.acquired = 1
    /\ Len(transport.released_by)
            = (IF \E i \in 1..Len(calls) : calls[i] \in Releasers THEN 1 ELSE 0)
    /\ \A i \in 1..Len(transport.released_by) :
            transport.released_by[i] \in Releasers
    /\ (transport.state = "closed") <=> (Len(transport.released_by) = 1)

\* a scoped use, then an explicit close: released once, by the scoped exit
C11_Witness ==
    /\ calls = <<"__aenter__", "__aexit__", "close">>
    /\ transport.released_by = <<"__aexit__">>
    /\ transport.state = "closed"

PlayerReferer == "https://y.qq.com/portal/player.html"

\* the referer a request of the route's client operation is to carry
OwnReferer(c) ==
    IF ClientOp[c.fn] = "get_lyric" THEN PlayerReferer ELSE DEFAULT_HEADERS["Referer"]

C13_CredentialSelection ==
    /\ ctor.cookie # NoArg => cookie = ctor.cookie.str
    /\ ctor.cookie = NoArg =>
            cookie = (IF ctor.env = EnvUnset THEN "" ELSE ctor.env.value)
    /\ ("Cookie" \in DOMAIN headers) <=> (cookie # "")
    /\ \A i \in 1..Len(sent) :
        /\ ("Cookie" \in DOMAIN sent[i].headers) <=> (cookie # "")
        /\ cookie # "" => sent[i].headers["Cookie"] = cookie

\* an empty cookie argument with the environment set: no credential, and the
\* request sent carries no Cookie header
C13_Witness ==
    /\ ctor = [cookie |-> Arg(""), env |-> EnvSet("uin=12345; qm_keyst=Q_H_L_5")]
    /\ cookie = ""
    /\ pc = "awaiting"
    /\ Len(sent) = 1
    /\ "Cookie" \notin DOMAIN sent[1].headers

DetailFns ==
    {"get_song", "get_quality", "get_album", "get_playlist",
     "get_song_detail", "get_song_quality", "get_album_detail", "get_playlist_detail"}

\* the client operation returned absent: None, or (None, songs) for a playlist
Absent(c, v) ==
    IF ClientOp[c.fn] = "get_playlist_detail" THEN v[1] = None ELSE v = None

\* the invocation's client operation has given a result or raised
Answered(i) == tasks[i].pc \in {"exiting", "ended"} /\ tasks[i].outcome # None

\* C14: when get_song_detail, get_album_detail or get_playlist_detail returns
\* absent, the REST route answers with code 404 and no data and the tool
\* function answers with an object holding only an error; when the client
\* operation raises, the route and the tool function raise the same error.
C14_AbsentIsNotFound ==
    \A i \in TaskIds :
        Answered(i) =>
            /\ (tasks[i].call.fn \in DetailFns /\ tasks[i].outcome.kind = "returned"
                    /\ Absent(tasks[i].call, tasks[i].outcome.value)) =>
                  /\ tasks[i].answer.kind = "returned"
                  /\ tasks[i].shim = "rest" =>
                        /\ tasks[i].answer.value.code = 404
                        /\ tasks[i].answer.value.data = None
                  /\ tasks[i].shim = "tool" =>
                        DOMAIN tasks[i].answer.value.json_text_of = {"error"}
            /\ tasks[i].outcome.kind = "raised" => tasks[i].answer = tasks[i].outcome

\* a route answered 404 for an absent song while a tool function, whose
\* client operation raised, is about to raise the same error
C14_Witness ==
    /\ Answered(1) /\ tasks[1].shim = "rest" /\ tasks[1].call.fn = "get_song"
    /\ tasks[1].outcome = Returned(None)
    /\ tasks[1].answer = Returned(Response(404, "Song not found", None))
    /\ Answered(2) /\ tasks[2].shim = "tool" /\ tasks[2].call.fn = "get_album_detail"
    /\ tasks[2].outcome = Raised("JSONDecodeError")
    /\ tasks[2].answer = Raised("JSONDecodeError")

\* the data object upstream sent to get_album_detail, and its track list
UpstreamAlbumData == Get(Decoded.value, "data", EmptyDict)
UpstreamAlbumList == Get(UpstreamAlbumData, "list", <<>>)

\* the performers upstream lists for a track
PerformersOf(track) ==
    LET l == Get(track, "singer", <<>>)
    IN  [i \in 1..Len(l) |->
            [id |-> Get(l[i], "id", 0), mid |-> Get(l[i], "mid", ""),
             name |-> Get(l[i], "name", "")]]

\* C15: on a response with status 0, get_album_detail returns absent when
\* the data object is missing or empty; otherwise it returns a Record whose
\* performers are those of the first listed track, none when no track is
\* listed, and whose track count is the declared count when upstream
\* declares one and the length of the track list when it does not.
C15_RecordDetailMapping ==
    (Ended /\ call.op = "get_album_detail" /\ TransportSucceeded /\ Status0) =>
        IF UpstreamAlbumData = EmptyDict THEN outcome = Returned(None)
        ELSE /\ outcome.kind = "returned"
             /\ outcome.value # None
             /\ outcome.value.singers =
                    (IF Len(UpstreamAlbumList) = 0 THEN <<>>
                     ELSE PerformersOf(UpstreamAlbumList[1]))
             /\ outcome.value.song_count =
                    (IF "total_song_num" \in DOMAIN UpstreamAlbumData
                     THEN UpstreamAlbumData.total_song_num
                     ELSE Len(UpstreamAlbumList))

\* two tracks with different performers and no declared count: the Record
\* has the two performers of the first track and counts 2 tracks
C15_Witness ==
    /\ Ended /\ call.op = "get_album_detail" /\ TransportSucceeded /\ Status0
    /\ UpstreamAlbumList = <<AlbumItemB, AlbumItemA>>
    /\ "total_song_num" \notin DOMAIN UpstreamAlbumData
    /\ outcome.kind = "returned"
    /\ outcome.value.song_count = 2
    /\ outcome.value.singers =
            <<[id |-> 8, mid |-> "S2", name |-> ""],
              [id |-> 0, mid |-> "", name |-> "Singer 3"]>>

\* a get_song_url invocation has built and sent its request
UrlRequested == pc \in {"awaiting", "done"} /\ call.op = "get_song_url"

\* the param object of the vkey envelope it sent
VkeyParam == sent[1].params.data.json_text_of.req_0.param

\* the identifiers asked for, a single string being the list of that one
RequestedMids ==
    IF "str" \in DOMAIN call.song_mid THEN <<call.song_mid.str>> ELSE call.song_mid.list

\* the tier a tier name resolves to
ResolvedTier(quality) == IF quality \in KnownTiers THEN quality ELSE "128"

\* C16: the envelope get_song_url sends carries the identifiers asked for,
\* unchanged and in order, as many song types, all 0, and as many filenames,
\* the i-th being prefix + id_i + id_i + "." + extension of the resolved
\* tier; a single string identifier counts as the list of that one.
C16_BatchRequestEncoding ==
    UrlRequested =>
        LET tier == QUALITY_TYPE[ResolvedTier(call.quality)] IN
        /\ Len(sent) = 1
        /\ VkeyParam.songmid = RequestedMids
        /\ Len(VkeyParam.songtype) = Len(RequestedMids)
        /\ \A i \in 1..Len(VkeyParam.songtype) : VkeyParam.songtype[i] = 0
        /\ Len(VkeyParam.filename) = Len(RequestedMids)
        /\ \A i \in 1..Len(RequestedMids) :
                VkeyParam.filename[i]
                    = tier.prefix \o RequestedMids[i] \o RequestedMids[i] \o "." \o tier.ext

\* [A, B] at tier flac: F000AA.flac and F000BB.flac
C16_Witness ==
    /\ UrlRequested
    /\ call.song_mid = [list |-> <<"A", "B">>]
    /\ call.quality = "flac"
    /\ VkeyParam.songmid = <<"A", "B">>
    /\ VkeyParam.songtype = <<0, 0>>
    /\ VkeyParam.filename = <<"F000AA.flac", "F000BB.flac">>

\* the places of the credential where "uin=" is followed by a digit
UinStarts(c) ==
    {i \in 1..Len(c) : /\ i + 4 <= Len(c)
                       /\ SubSeq(c, i, i + 3) = "uin="
                       /\ SubSeq(c, i + 4, i + 4) \in {"0", "1", "2", "3", "4", "5", "6", "7", "8", "9"}}

\* d is the whole run of digits after the first such place
IsFirstUinRun(c, d) ==
    \E i \in UinStarts(c) :
        /\ \A j \in UinStarts(c) : i <= j
        /\ Len(d) >= 1
        /\ i + 3 + Len(d) <= Len(c)
        /\ d = SubSeq(c, i + 4, i + 3 + Len(d))
        /\ \A k \in 1..Len(d) :
                SubSeq(d, k, k) \in {"0", "1", "2", "3", "4", "5", "6", "7", "8", "9"}
        /\ \/ i + 4 + Len(d) > Len(c)
           \/ SubSeq(c, i + 4 + Len(d), i + 4 + Len(d))
                \notin {"0", "1", "2", "3", "4", "5", "6", "7", "8", "9"}

\* C17: in the vkey request the login flag is 1 when the credential is not
\* empty and 0 when it is; the uin is the run of digits after the first
\* "uin=" of the credential that a digit follows, and "0" when the
\* credential is empty or has no such place; so login flag 0 comes with
\* uin "0".
C17_UinAndLoginFlag ==
    UrlRequested =>
        /\ VkeyParam.loginflag = (IF cookie # "" THEN 1 ELSE 0)
        /\ IF cookie # "" /\ UinStarts(cookie) # {}
           THEN IsFirstUinRun(cookie, VkeyParam.uin)
           ELSE VkeyParam.uin = "0"
        /\ VkeyParam.loginflag = 0 => VkeyParam.uin = "0"

\* a credential with "p_uin=o07", then "wxuin=99", then "uin=12": uin 99
C17_Witness ==
    /\ UrlRequested
    /\ cookie = "p_uin=o07; wxuin=99; uin=12"
    /\ VkeyParam.uin = "99"
    /\ VkeyParam.loginflag = 1

\* what base64.b64decode(field).decode("utf-8") gives for the fields upstream
\* sends here, and "raw" where one of the two steps fails
DecodedText ==
    ("aGVsbG8=" :> "hello")
    @@ ("aGVs bG8=" :> "hello")
    @@ ("5Lit" :> "\\u{20013}")
    @@ ("aGVsbG8" :> "raw")
    @@ ("/w==" :> "raw")
    @@ ("[00:01.00]la la" :> "raw")

\* what get_lyric is to return for one field of the response
LyricText(field) ==
    IF field = "" THEN ""
    ELSE IF DecodedText[field] = "raw" THEN field
    ELSE DecodedText[field]

\* C18: on a lyric response with status 0, get_lyric returns; each of the
\* two fields is, independently of the other, "" when it is empty or
\* missing, its decoded text when it is base64 of UTF-8 text, and the string
\* as it came when the base64 or the UTF-8 step fails.
C18_LyricDecodingDegrades ==
    (Ended /\ call.op = "get_lyric" /\ TransportSucceeded /\ Status0) =>
        /\ outcome.kind = "returned"
        /\ outcome.value.lyric = LyricText(Get(Decoded.value, "lyric", ""))
        /\ outcome.value.trans = LyricText(Get(Decoded.value, "trans", ""))

\* the lyric decodes to "hello", the translation is base64 of a byte that is
\* not UTF-8 and stays as it came
C18_Witness ==
    /\ Ended /\ call.op = "get_lyric" /\ TransportSucceeded /\ Status0
    /\ Decoded.value = [code |-> 0, lyric |-> "aGVsbG8=", trans |-> "/w=="]
    /\ outcome = Returned([lyric |-> "hello", trans |-> "/w=="])

\* the operations that go through the request helper
HelperOps == NetworkOps \ {"get_lyric"}

\* the text begins with one of the two callback names and "("
BeginsWithCallback(text) ==
    \/ startswith(text.prefix, "callback(")
    \/ startswith(text.prefix, "MusicJsonCallback(")

\* the text holds "({", and later "})"
HoldsParenthesizedObject(text) ==
    /\ endswith(text.prefix, "(")
    /\ startswith(text.suffix, ")")
    /\ text.body.valid
        \/ (startswith(text.body.raw, "{") /\ endswith(text.body.raw, "}"))

\* what parsing a text as JSON gives
Parsed(text) ==
    IF text.prefix = "" /\ text.suffix = "" /\ text.body.valid
    THEN Returned(text.body.value)
    ELSE Raised("JSONDecodeError")

\* what the invoked operation makes of what the helper gives it
ResultOn(req) ==
    CASE call.op = "search" -> search_result(call.keyword, call.page, call.page_size, req)
      [] call.op = "get_song_detail" -> get_song_detail_result(req)
      [] call.op = "get_song_url" -> get_song_url_result(call.quality, req)
      [] call.op = "get_album_detail" -> get_album_detail_result(req)
      [] call.op = "get_album_songs" -> get_album_songs_result(req)
      [] call.op = "get_playlist_detail" -> get_playlist_detail_result(req)

\* C19: a response text that does not begin with "callback(" or
\* "MusicJsonCallback(" is parsed as it is, and unwrapping leaves it as it
\* is, once or twice; a text that begins so and holds a parenthesized object
\* is parsed as that object alone; a text that begins so and holds none is
\* parsed as it is, and the operation raises the parse failure.
C19_JsonpUnwrapping ==
    (Ended /\ call.op \in HelperOps /\ TransportSucceeded) =>
        LET text == reply.text IN
        IF ~BeginsWithCallback(text)
        THEN /\ outcome = ResultOn(Parsed(text))
             /\ jsonp_unwrap(text) = text
             /\ jsonp_unwrap(jsonp_unwrap(text)) = jsonp_unwrap(text)
        ELSE IF HoldsParenthesizedObject(text)
        THEN outcome = ResultOn(Parsed(Text("", text.body, "")))
        ELSE /\ Parsed(text) = Raised("JSONDecodeError")
             /\ outcome = Raised("JSONDecodeError")

\* "callback(" with an object and no closing parenthesis: nothing to unwrap,
\* and the parse failure reaches the caller
C19_Witness ==
    /\ Ended /\ call.op = "search" /\ TransportSucceeded
    /\ reply.text.prefix = "callback("
    /\ reply.text.body.valid
    /\ reply.text.suffix = ""
    /\ outcome = Raised("JSONDecodeError")

\* the mids argument of get_batch_song_urls holds nothing but commas and
\* white space
NoMidGiven(c) ==
    /\ c.fn = "get_batch_song_urls"
    /\ \A k \in 1..Len(c.mids) : SubSeq(c.mids, k, k) \in {",", " ", "\t", "\n"}

\* the client of invocation i has been closed, once
ClosedOnce(i) ==
    /\ tasks[i].client.transport.state = "closed"
    /\ Len(tasks[i].client.transport.released_by) = 1

\* C20 as claimed: every invocation of a network tool function constructs a
\* client of its own, and when the invocation has ended, however it ended,
\* that client's transport has been closed exactly once.
C20_EveryInvocationClosesItsClient ==
    \A i \in TaskIds :
        (tasks[i].shim = "tool" /\ tasks[i].pc = "ended") =>
            /\ tasks[i].client # None
            /\ ClosedOnce(i)

\* C20 as amended: get_batch_song_urls given no identifier ends with an error
\* object and without a client; every other invocation of a network tool
\* function has a client of its own, with one transport, which is open
\* while the invocation awaits its client operation and has been closed
\* exactly once when the invocation has ended, whether the operation
\* returned a value, returned absent or raised; an invocation that has not
\* started or whose answer was taken holds no client.
C20_ToolClientClosedOnce ==
    \A i \in TaskIds :
        /\ tasks[i].shim = "tool" =>
            IF NoMidGiven(tasks[i].call)
            THEN /\ tasks[i].pc = "ended"
                 /\ tasks[i].client = None
                 /\ tasks[i].sent = <<>>
                 /\ DOMAIN tasks[i].answer.value.json_text_of = {"error"}
            ELSE /\ tasks[i].client # None
                 /\ tasks[i].client.transport.acquired = 1
                 /\ tasks[i].pc \in {"awaiting", "exiting"} =>
                        /\ tasks[i].client.transport.state = "open"
                        /\ tasks[i].client.transport.released_by = <<>>
                 /\ tasks[i].pc = "ended" => ClosedOnce(i)
        /\ tasks[i].pc = "idle" => tasks[i].client = None

\* one tool function ended by an exception of its client operation, its
\* client closed once, while another awaits on its own open client
C20_Witness ==
    /\ tasks[1].shim = "tool" /\ tasks[1].pc = "ended"
    /\ tasks[1].call.fn = "get_song_detail"
    /\ tasks[1].outcome = Raised("ConnectError")
    /\ tasks[1].answer = Raised("ConnectError")
    /\ tasks[1].client.transport.released_by = <<"__aexit__">>
    /\ tasks[2].shim = "tool" /\ tasks[2].pc = "awaiting"
    /\ tasks[2].client.transport.state = "open"

====
